---- MODULE Spec2Model ----
(***************************************************************************)
(* Model of the WhatsApp / Google Drive assistant (src/server.js) and its  *)
(* audit logger (src/helpers/audit-logger.js).                             *)
(*                                                                         *)
(* Text is modelled character by character: a string is a sequence of      *)
(* one-character strings, so that trimming, upper-casing and the regular   *)
(* expressions of parseCommand are computed as the code computes them.     *)
(* The remote store (Google Drive), the summary service (Gemini) and the   *)
(* chat transport (Twilio) are external: each call either succeeds or      *)
(* throws, chosen nondeterministically.                                    *)
(***************************************************************************)
EXTENDS Integers, Sequences, FiniteSets, TLC

VARIABLES
    store,      \* remote store: entry id -> entry record or Gone
    exactCS,    \* TRUE when the store's name='x' lookup is case-sensitive
    logFiles,   \* audit segments: 0 = active file, i = "<file>.i"; Absent if no file
    written,    \* number of audit lines appended so far
    handled,    \* number of webhook requests received so far
    pc,         \* position of the webhook handler
    body,       \* req.body.Body of the request being handled
    parsed,     \* parsedCommand
    sessionId,  \* the handler's sessionId (returned by logCommand)
    result,     \* result of the executed operation
    calls,      \* remote calls issued while handling the request, in order
    events,     \* audit entries recorded while handling the request, in order
    reply,      \* responseMessage built by formatWhatsAppResponse
    http,       \* what the handler answered to the transport
    requested,  \* history: the paths of the DELETE_REQUEST messages handled so far
    faultsLeft  \* file-system errors the log directory may still raise

vars == <<store, exactCS, logFiles, written, handled, pc, body, parsed,
          sessionId, result, calls, events, reply, http, requested, faultsLeft>>

-----------------------------------------------------------------------------
(* Characters and strings                                                  *)

LowerChars == <<"a","b","c","d","e","f","g","h","i","j","k","l","m",
                "n","o","p","q","r","s","t","u","v","w","x","y","z">>

UpperChars == <<"A","B","C","D","E","F","G","H","I","J","K","L","M",
                "N","O","P","Q","R","S","T","U","V","W","X","Y","Z">>

Digits == <<"0","1","2","3","4","5","6","7","8","9">>

\* \s of the regular expressions; "\n" is the one line terminator modelled.
WhiteSpace == {" ", "\n"}

\* The characters the regular expressions' "." does not match.
LineTerminators == {"\n"}

Range(s) == {s[i] : i \in 1..Len(s)}

IndexIn(c, s) == CHOOSE i \in 1..Len(s) : s[i] = c

\* The characters of the model, in code-unit order
CharOrder == <<"\n", " ", ".", "/">> \o Digits \o UpperChars \o LowerChars

Chars == Range(CharOrder)

UpperOf ==
    [c \in Chars |-> IF c \in Range(LowerChars) THEN UpperChars[IndexIn(c, LowerChars)] ELSE c]

LowerOf ==
    [c \in Chars |-> IF c \in Range(UpperChars) THEN LowerChars[IndexIn(c, UpperChars)] ELSE c]

RankOf == [c \in Chars |-> IndexIn(c, CharOrder)]

DigitSet == Range(Digits)

DigitValue == [c \in DigitSet |-> IndexIn(c, Digits) - 1]

IsDigit(c) == c \in DigitSet

toUpperChar(c) == UpperOf[c]

toLowerChar(c) == LowerOf[c]

\* String.prototype.toUpperCase
toUpperCase(s) == [i \in 1..Len(s) |-> toUpperChar(s[i])]

\* String.prototype.toLowerCase
toLowerCase(s) == [i \in 1..Len(s) |-> toLowerChar(s[i])]

\* Number of leading whitespace characters of s.
LeadWS(s) ==
    IF \A i \in 1..Len(s) : s[i] \in WhiteSpace THEN Len(s)
    ELSE (CHOOSE i \in 1..Len(s) :
              /\ s[i] \notin WhiteSpace
              /\ \A j \in 1..(i-1) : s[j] \in WhiteSpace) - 1

\* Number of trailing whitespace characters of s.
TrailWS(s) ==
    IF \A i \in 1..Len(s) : s[i] \in WhiteSpace THEN Len(s)
    ELSE Len(s) - (CHOOSE i \in 1..Len(s) :
                       /\ s[i] \notin WhiteSpace
                       /\ \A j \in (i+1)..Len(s) : s[j] \in WhiteSpace)

\* String.prototype.trim
trim(s) ==
    IF LeadWS(s) = Len(s) THEN <<>>
    ELSE SubSeq(s, LeadWS(s) + 1, Len(s) - TrailWS(s))

\* String.prototype.substring(from) (to the end of the string)
substring(s, from) == SubSeq(s, from + 1, Len(s))

\* String.prototype.startsWith
startsWith(s, p) == Len(s) >= Len(p) /\ SubSeq(s, 1, Len(p)) = p

\* String.prototype.endsWith
endsWith(s, p) == Len(s) >= Len(p) /\ SubSeq(s, Len(s) - Len(p) + 1, Len(s)) = p

\* String.prototype.includes for a single character
includesChar(s, c) == \E i \in 1..Len(s) : s[i] = c

\* s with its leading whitespace removed
AfterWS(s) == SubSeq(s, LeadWS(s) + 1, Len(s))

\* "." matches every character of s
DotAll(s) == \A i \in 1..Len(s) : s[i] \notin LineTerminators

\* \d+ matches the whole of s
AllDigits(s) == Len(s) >= 1 /\ \A i \in 1..Len(s) : IsDigit(s[i])

RECURSIVE parseInt(_)
\* parseInt of a string of decimal digits
parseInt(s) ==
    IF Len(s) = 0 THEN 0
    ELSE 10 * parseInt(SubSeq(s, 1, Len(s) - 1)) + DigitValue[s[Len(s)]]

-----------------------------------------------------------------------------
(* The words of the command language                                       *)

kwLIST == <<"L","I","S","T">>

kwPAGE == <<"P","A","G","E">>

kwDELETE == <<"D","E","L","E","T","E">>

kwCONFIRM == <<"C","O","N","F","I","R","M">>

kwMOVE == <<"M","O","V","E">>

kwSUMMARY == <<"S","U","M","M","A","R","Y">>

kwHELP == <<"H","E","L","P">>

kwROOT == <<"R","O","O","T">>

Slash == <<"/">>

NoMatch == [matched |-> FALSE]

-----------------------------------------------------------------------------
(* The regular expressions of parseCommand.  A match is a record           *)
(* [matched, g1, g2]: the captured groups match[1] and match[2].           *)

\* /^KW\s+(.+)$/ : the greedy \s+ takes the whole whitespace run (a shorter
\* run would only put whitespace in front of the group, and the group may not
\* hold a line terminator either way).
MatchRest(s, kw) ==
    IF ~startsWith(s, kw) THEN NoMatch
    ELSE LET t == substring(s, Len(kw))
             r == AfterWS(t)
         IN  IF LeadWS(t) >= 1 /\ Len(r) >= 1 /\ DotAll(r)
             THEN [matched |-> TRUE, g1 |-> r, g2 |-> <<>>]
             ELSE NoMatch

\* The tail \s+CONFIRM$ of deleteConfirmPattern
TailConfirm(t) == LeadWS(t) >= 1 /\ AfterWS(t) = kwCONFIRM

\* The tail \s+PAGE\s+(\d+)$ of listPagePattern
TailPage(t) ==
    /\ LeadWS(t) >= 1
    /\ startsWith(AfterWS(t), kwPAGE)
    /\ LET v == substring(AfterWS(t), Len(kwPAGE))
       IN  LeadWS(v) >= 1 /\ AllDigits(AfterWS(v))

\* The tail \s+(.+)$ of movePattern
TailRest(t) == LeadWS(t) >= 1 /\ Len(AfterWS(t)) >= 1 /\ DotAll(AfterWS(t))

\* /^KW\s+(.+?)<tail>$/ : backtracking order.  The greedy \s+ is tried from
\* its longest run a down, and for each the lazy group from its shortest end b
\* up; the first (a, b) whose remainder matches the tail is the match.
MatchLazy(s, kw, tail) ==
    IF ~startsWith(s, kw) THEN NoMatch
    ELSE LET k == Len(kw)
             n == Len(s)
             TailOK(t) == CASE tail = "page"    -> TailPage(t)
                            [] tail = "confirm" -> TailConfirm(t)
                            [] tail = "rest"    -> TailRest(t)
             Ends(a) == {b \in (a+1)..n :
                            /\ DotAll(SubSeq(s, a + 1, b))
                            /\ TailOK(SubSeq(s, b + 1, n))}
             Runs == {a \in (k+1)..n :
                         /\ \A j \in (k+1)..a : s[j] \in WhiteSpace
                         /\ Ends(a) # {}}
         IN  IF Runs = {} THEN NoMatch
             ELSE LET a == CHOOSE x \in Runs : \A y \in Runs : y <= x
                      b == CHOOSE x \in Ends(a) : \A y \in Ends(a) : x <= y
                  IN  [matched |-> TRUE,
                       g1 |-> SubSeq(s, a + 1, b),
                       g2 |-> AfterWS(SubSeq(s, b + 1, n))]

listPattern(s) == MatchRest(s, kwLIST)

\* g2 is "PAGE<ws><digits>" here; PageDigits takes the digits, match[2].
listPagePattern(s) == MatchLazy(s, kwLIST, "page")

PageDigits(m) == AfterWS(substring(m.g2, Len(kwPAGE)))

deletePattern(s) == MatchRest(s, kwDELETE)

deleteConfirmPattern(s) == MatchLazy(s, kwDELETE, "confirm")

movePattern(s) == MatchLazy(s, kwMOVE, "rest")

summaryPattern(s) == MatchRest(s, kwSUMMARY)

helpPattern(s) == s = kwHELP

\* The SUMMARY branch: strip a leading slash from a path holding a dot.
SummaryPath(p) ==
    IF startsWith(trim(p), Slash) /\ includesChar(trim(p), ".")
    THEN trim(substring(trim(p), 1))
    ELSE trim(p)

\* parseCommand(messageBody): the fields a command does not carry are <<>> / 0.
Intent(c, p1, p2, n) == [command |-> c, path |-> p1, destinationPath |-> p2, page |-> n]

\* parseCommand with helpPattern written without its end anchor
parseCommandOn_HelpPrefix(b) ==
    LET lp == listPagePattern(b)
        l  == listPattern(b)
        dc == deleteConfirmPattern(b)
        d  == deletePattern(b)
        m  == movePattern(b)
        sm == summaryPattern(b)
    IN  IF lp.matched THEN Intent("LIST", lp.g1, <<>>, parseInt(PageDigits(lp)))
        ELSE IF l.matched THEN Intent("LIST", l.g1, <<>>, 1)
        ELSE IF dc.matched THEN Intent("DELETE_CONFIRM", dc.g1, <<>>, 0)
        ELSE IF d.matched THEN Intent("DELETE_REQUEST", d.g1, <<>>, 0)
        ELSE IF m.matched THEN Intent("MOVE", m.g1, m.g2, 0)
        ELSE IF sm.matched THEN Intent("SUMMARY", SummaryPath(sm.g1), <<>>, 0)
        ELSE IF startsWith(b, kwHELP) THEN Intent("HELP", <<>>, <<>>, 0)
        ELSE Intent("UNKNOWN", <<>>, <<>>, 0)

parseCommandOn(b) ==
    LET lp == listPagePattern(b)
        l  == listPattern(b)
        dc == deleteConfirmPattern(b)
        d  == deletePattern(b)
        m  == movePattern(b)
        sm == summaryPattern(b)
    IN  IF lp.matched THEN Intent("LIST", lp.g1, <<>>, parseInt(PageDigits(lp)))
        ELSE IF l.matched THEN Intent("LIST", l.g1, <<>>, 1)
        ELSE IF dc.matched THEN Intent("DELETE_CONFIRM", dc.g1, <<>>, 0)
        ELSE IF d.matched THEN Intent("DELETE_REQUEST", d.g1, <<>>, 0)
        ELSE IF m.matched THEN Intent("MOVE", m.g1, m.g2, 0)
        ELSE IF sm.matched THEN Intent("SUMMARY", SummaryPath(sm.g1), <<>>, 0)
        ELSE IF helpPattern(b) THEN Intent("HELP", <<>>, <<>>, 0)
        ELSE Intent("UNKNOWN", <<>>, <<>>, 0)

\* const body = messageBody.trim().toUpperCase()
NormalizeBody(messageBody) == toUpperCase(trim(messageBody))

parseCommand(messageBody) == parseCommandOn(NormalizeBody(messageBody))

-----------------------------------------------------------------------------
(* The remote store: Google Drive behind the drive.files calls             *)
(* An entry is [name, mimeType, parents, trashed]; store maps the ids of   *)
(* the existing entries to their entries.  Ids are numbers; 0 is 'root'.   *)

\* let folderId = 'root'
RootId == 0

FolderMime == "application/vnd.google-apps.folder"

PdfMime == "application/pdf"

TextMime == "text/plain"

PngMime == "image/png"

Entry(n, m, ps) == [name |-> n, mimeType |-> m, parents |-> ps, trashed |-> FALSE]

\* A file as a files.list response carries it (fields: id, name, ...).
File(st, id) == [id |-> id, name |-> st[id].name, mimeType |-> st[id].mimeType,
                 parents |-> st[id].parents]

CharRank(c) == RankOf[c]

\* a sorts strictly before b, character by character
LexLess(a, b) ==
    \E i \in 1..(Len(a) + 1) :
        /\ \A j \in 1..(i-1) : j <= Len(b) /\ a[j] = b[j]
        /\ \/ i = Len(a) + 1 /\ Len(b) >= i
           \/ i <= Len(a) /\ i <= Len(b) /\ CharRank(a[i]) < CharRank(b[i])

RECURSIVE InIdOrder(_)
\* A files.list without orderBy answers in the store's own order: the ids of
\* S by increasing id
InIdOrder(S) ==
    IF S = {} THEN <<>>
    ELSE LET m == CHOOSE x \in S : \A y \in S : x <= y
         IN  <<m>> \o InIdOrder(S \ {m})

\* orderBy: 'name' (ties by id)
ByName(st, a, b) ==
    \/ LexLess(st[a].name, st[b].name)
    \/ st[a].name = st[b].name /\ a < b

RECURSIVE InsertByName(_, _, _)
\* The sequence o of ids, in name order, with x put at its place
InsertByName(st, o, x) ==
    IF o = <<>> THEN <<x>>
    ELSE IF ByName(st, x, Head(o)) THEN <<x>> \o o
    ELSE <<Head(o)>> \o InsertByName(st, Tail(o), x)

RECURSIVE InNameOrder(_, _)
\* The ids of S by name
InNameOrder(st, S) ==
    IF S = {} THEN <<>>
    ELSE LET x == CHOOSE y \in S : TRUE
         IN  InsertByName(st, InNameOrder(st, S \ {x}), x)

RECURSIVE FilesOf(_, _)
\* The files of the ids o, as a response carries them
FilesOf(st, o) ==
    IF o = <<>> THEN <<>> ELSE <<File(st, Head(o))>> \o FilesOf(st, Tail(o))

\* The store's answer to name='x': an exact name, in the store's own casing rule.
NameEquals(cs, n, x) == IF cs THEN n = x ELSE toLowerCase(n) = toLowerCase(x)

\* q: name='<x>' and mimeType='application/vnd.google-apps.folder'
FoldersNamed(st, cs, x) ==
    FilesOf(st, InIdOrder({id \in DOMAIN st :
        st[id].mimeType = FolderMime /\ NameEquals(cs, st[id].name, x)}))

\* q: mimeType='application/vnd.google-apps.folder'
AllFolders(st) ==
    FilesOf(st, InIdOrder({id \in DOMAIN st : st[id].mimeType = FolderMime}))

\* q: name='<x>' and trashed=false
FilesNamed(st, cs, x) ==
    FilesOf(st, InIdOrder({id \in DOMAIN st :
        ~st[id].trashed /\ NameEquals(cs, st[id].name, x)}))

\* q: trashed=false
AllFiles(st) ==
    FilesOf(st, InIdOrder({id \in DOMAIN st : ~st[id].trashed}))

\* q: '<folderId>' in parents and trashed=false, orderBy: 'name'
ChildrenOf(st, folderId) ==
    FilesOf(st, InNameOrder(st, {id \in DOMAIN st :
        ~st[id].trashed /\ folderId \in st[id].parents}))

\* drive.files.delete({ fileId })
StoreDelete(st, id) == [x \in DOMAIN st \ {id} |-> st[x]]

\* drive.files.update({ fileId, addParents, removeParents }).  The request
\* names the parents to add and the parents to remove; which the store applies
\* first is the store's business: addFirst is that choice.
StoreUpdate(st, id, add, remove, addFirst) ==
    [st EXCEPT ![id].parents =
        IF addFirst THEN (@ \cup {add}) \ remove ELSE (@ \ remove) \cup {add}]

\* find taking the last match
FindByLowerName_Last(files, x) ==
    LET M == {i \in 1..Len(files) : toLowerCase(files[i].name) = toLowerCase(x)}
    IN  IF M = {} THEN <<>>
        ELSE <<files[CHOOSE i \in M : \A j \in M : i >= j]>>

\* Array.prototype.find with a case-insensitive name test: the first match, or none
FindByLowerName(files, x) ==
    LET M == {i \in 1..Len(files) : toLowerCase(files[i].name) = toLowerCase(x)}
    IN  IF M = {} THEN <<>>
        ELSE <<files[CHOOSE i \in M : \A j \in M : i <= j]>>

-----------------------------------------------------------------------------
(* Remote calls as the handler issues them.  A call record tells the API,  *)
(* the name or id it was about, whether it went well, and its answer.      *)

Call(api, name, id, ok) ==
    [api |-> api, name |-> name, id |-> id, ok |-> ok,
     answer |-> IF ok THEN "ok" ELSE "throws"]

NoId == 0 - 1

MutatingApis == {"files.delete", "files.update"}

StoreApis == {"files.list", "files.get", "files.delete", "files.update"}

\* An operation's outcome: its result, the calls it issued, the store after it.
Outcome(res, cs, st) == [result |-> res, calls |-> cs, store |-> st]

\* { error: error.message } of a catch block
Thrown(what) == [error |-> [tmpl |-> what, arg |-> <<>>]]

\* { error: `... '${x}' not found` }
NotFound(what, x) == [error |-> [tmpl |-> what, arg |-> x]]

HasError(r) == "error" \in DOMAIN r

-----------------------------------------------------------------------------
(* listFiles                                                               *)

pageSize == 10

\* Array.prototype.slice(start, end), negative indices counting from the end
slice(a, start, end) ==
    LET n    == Len(a)
        from == IF start < 0 THEN (IF n + start < 0 THEN 0 ELSE n + start)
                ELSE (IF start > n THEN n ELSE start)
        to   == IF end < 0 THEN (IF n + end < 0 THEN 0 ELSE n + end)
                ELSE (IF end > n THEN n ELSE end)
    IN  IF to <= from THEN <<>> ELSE SubSeq(a, from + 1, to)

\* Math.ceil(n / pageSize)
CeilDiv(n, d) == (n + d - 1) \div d

\* The page of a listing, its first index taken to be page * pageSize
Paginate_FromPage(allFiles, page) ==
    [files      |-> slice(allFiles, page * pageSize, page * pageSize + pageSize),
     totalFiles |-> Len(allFiles),
     page       |-> page,
     totalPages |-> CeilDiv(Len(allFiles), pageSize)]

\* The page of a listing: lines 156-167.
Paginate(allFiles, page) ==
    [files      |-> slice(allFiles, (page - 1) * pageSize, (page - 1) * pageSize + pageSize),
     totalFiles |-> Len(allFiles),
     page       |-> page,
     totalPages |-> CeilDiv(Len(allFiles), pageSize)]

\* The test for the root folder knowing '/' only
IsRootPath_SlashOnly(p) == p = Slash

\* folderPath !== '/' && folderPath !== 'ROOT'
IsRootPath(p) == p = Slash \/ p = kwROOT

\* A resolution: found (with the file), notfound, or thrown; with the calls so far.
Resolution(status, file, cs) == [status |-> status, file |-> file, calls |-> cs]

NoFile == [id |-> NoId]

\* The folder lookup without the scan of all folders
ResolveFolder_ExactOnly(st, exact, folderPath, cs, failAt) ==
    IF IsRootPath(folderPath) THEN Resolution("found", [id |-> RootId], cs)
    ELSE IF failAt = Len(cs) + 1
    THEN Resolution("thrown", NoFile, Append(cs, Call("files.list", folderPath, NoId, FALSE)))
    ELSE LET c1 == Append(cs, Call("files.list", folderPath, NoId, TRUE))
             folderResponse == FoldersNamed(st, exact, folderPath)
         IN  IF Len(folderResponse) = 0 THEN Resolution("notfound", NoFile, c1)
             ELSE Resolution("found", folderResponse[1], c1)

\* The folder lookup of listFiles (lines 118-148) and of moveFile's destination
\* (lines 240-268): the sentinel 'root' for '/' and 'ROOT', else the exact query
\* and, when it is empty, the scan of all folders for a case-insensitive match.
ResolveFolder(st, exact, folderPath, cs, failAt) ==
    IF IsRootPath(folderPath) THEN Resolution("found", [id |-> RootId], cs)
    ELSE IF failAt = Len(cs) + 1
    THEN Resolution("thrown", NoFile, Append(cs, Call("files.list", folderPath, NoId, FALSE)))
    ELSE LET c1 == Append(cs, Call("files.list", folderPath, NoId, TRUE))
             folderResponse == FoldersNamed(st, exact, folderPath)
         IN  IF Len(folderResponse) = 0
             THEN IF failAt = Len(c1) + 1
                  THEN Resolution("thrown", NoFile, Append(c1, Call("files.list", <<>>, NoId, FALSE)))
                  ELSE LET c2 == Append(c1, Call("files.list", <<>>, NoId, TRUE))
                           matchingFolder == FindByLowerName(AllFolders(st), folderPath)
                       IN  IF matchingFolder # <<>>
                           THEN Resolution("found", matchingFolder[1], c2)
                           ELSE Resolution("notfound", NoFile, c2)
             ELSE Resolution("found", folderResponse[1], c1)

\* The file lookup of deleteFile (lines 176-201) and of moveFile's source
\* (lines 213-238): the exact query among the non-trashed entries and, when it
\* is empty, the scan of all of them for a case-insensitive match.
ResolveFile(st, exact, filePath, cs, failAt) ==
    IF failAt = Len(cs) + 1
    THEN Resolution("thrown", NoFile, Append(cs, Call("files.list", filePath, NoId, FALSE)))
    ELSE LET c1 == Append(cs, Call("files.list", filePath, NoId, TRUE))
             response == FilesNamed(st, exact, filePath)
         IN  IF Len(response) = 0
             THEN IF failAt = Len(c1) + 1
                  THEN Resolution("thrown", NoFile, Append(c1, Call("files.list", <<>>, NoId, FALSE)))
                  ELSE LET c2 == Append(c1, Call("files.list", <<>>, NoId, TRUE))
                           matchingFile == FindByLowerName(AllFiles(st), filePath)
                       IN  IF matchingFile # <<>>
                           THEN Resolution("found", matchingFile[1], c2)
                           ELSE Resolution("notfound", NoFile, c2)
             ELSE Resolution("found", response[1], c1)

\* The final listing call of listFiles and its page.  cs are the calls
\* issued before it; failAt is the ordinal of the call that throws (0: none).
ListChildren(st, folderId, page, cs, failAt) ==
    IF failAt = Len(cs) + 1
    THEN Outcome(Thrown("list"), Append(cs, Call("files.list", <<>>, folderId, FALSE)), st)
    ELSE Outcome(Paginate(ChildrenOf(st, folderId), page),
                 Append(cs, Call("files.list", <<>>, folderId, TRUE)), st)

listFiles(st, exact, folderPath, page, failAt) ==
    LET r == ResolveFolder(st, exact, folderPath, <<>>, failAt)
    IN  IF r.status = "thrown" THEN Outcome(Thrown("list"), r.calls, st)
        ELSE IF r.status = "notfound" THEN Outcome(NotFound("Folder", folderPath), r.calls, st)
        ELSE ListChildren(st, r.file.id, page, r.calls, failAt)

-----------------------------------------------------------------------------
(* deleteFile and moveFile                                                 *)

\* deleteFile without the case-insensitive scan: the exact query decides.
deleteFile_ExactOnly(st, exact, filePath, failAt) ==
    IF failAt = 1
    THEN Outcome(Thrown("delete"), <<Call("files.list", filePath, NoId, FALSE)>>, st)
    ELSE LET c1 == <<Call("files.list", filePath, NoId, TRUE)>>
             response == FilesNamed(st, exact, filePath)
         IN  IF Len(response) = 0 THEN Outcome(NotFound("File", filePath), c1, st)
             ELSE IF failAt = 2
             THEN Outcome(Thrown("delete"),
                          Append(c1, Call("files.delete", <<>>, response[1].id, FALSE)), st)
             ELSE Outcome([success |-> TRUE, fileName |-> filePath],
                          Append(c1, Call("files.delete", <<>>, response[1].id, TRUE)),
                          StoreDelete(st, response[1].id))

deleteFile(st, exact, filePath, failAt) ==
    LET r == ResolveFile(st, exact, filePath, <<>>, failAt)
    IN  IF r.status = "thrown" THEN Outcome(Thrown("delete"), r.calls, st)
        ELSE IF r.status = "notfound" THEN Outcome(NotFound("File", filePath), r.calls, st)
        ELSE IF failAt = Len(r.calls) + 1
        THEN Outcome(Thrown("delete"),
                     Append(r.calls, Call("files.delete", <<>>, r.file.id, FALSE)), st)
        ELSE Outcome([success |-> TRUE, fileName |-> filePath],
                     Append(r.calls, Call("files.delete", <<>>, r.file.id, TRUE)),
                     StoreDelete(st, r.file.id))

\* The update call of moveFile (lines 270-278).  An entry without parents
\* carries no parents field, and sourceFile.parents.join throws before the call.
MoveUpdate(st, sourceFile, destinationId, sourcePath, destinationPath, cs, failAt, addFirst) ==
    IF sourceFile.parents = {} THEN Outcome(Thrown("move"), cs, st)
    ELSE IF failAt = Len(cs) + 1
    THEN Outcome(Thrown("move"),
                 Append(cs, Call("files.update", <<>>, sourceFile.id, FALSE)), st)
    ELSE Outcome([success |-> TRUE, fileName |-> sourcePath, destination |-> destinationPath],
                 Append(cs, Call("files.update", <<>>, sourceFile.id, TRUE)),
                 StoreUpdate(st, sourceFile.id, destinationId, sourceFile.parents, addFirst))

\* moveFile detaching the source from its parents before it looks up the
\* destination
moveFile_DetachFirst(st, exact, sourcePath, destinationPath, failAt, addFirst) ==
    LET s == ResolveFile(st, exact, sourcePath, <<>>, failAt)
    IN  IF s.status = "thrown" THEN Outcome(Thrown("move"), s.calls, st)
        ELSE IF s.status = "notfound"
        THEN Outcome(NotFound("Source file", sourcePath), s.calls, st)
        ELSE LET c1 == Append(s.calls, Call("files.update", <<>>, s.file.id, TRUE))
                 s1 == [st EXCEPT ![s.file.id].parents = {}]
                 d  == ResolveFolder(s1, exact, destinationPath, c1, failAt)
             IN  IF d.status = "thrown" THEN Outcome(Thrown("move"), d.calls, s1)
                 ELSE IF d.status = "notfound"
                 THEN Outcome(NotFound("Destination folder", destinationPath), d.calls, s1)
                 ELSE Outcome([success |-> TRUE, fileName |-> sourcePath,
                               destination |-> destinationPath],
                              Append(d.calls, Call("files.update", <<>>, s.file.id, TRUE)),
                              [s1 EXCEPT ![s.file.id].parents = {d.file.id}])

moveFile(st, exact, sourcePath, destinationPath, failAt, addFirst) ==
    LET s == ResolveFile(st, exact, sourcePath, <<>>, failAt)
    IN  IF s.status = "thrown" THEN Outcome(Thrown("move"), s.calls, st)
        ELSE IF s.status = "notfound"
        THEN Outcome(NotFound("Source file", sourcePath), s.calls, st)
        ELSE LET d == ResolveFolder(st, exact, destinationPath, s.calls, failAt)
             IN  IF d.status = "thrown" THEN Outcome(Thrown("move"), d.calls, st)
                 ELSE IF d.status = "notfound"
                 THEN Outcome(NotFound("Destination folder", destinationPath), d.calls, st)
                 ELSE MoveUpdate(st, s.file, d.file.id, sourcePath, destinationPath,
                                 d.calls, failAt, addFirst)

-----------------------------------------------------------------------------
(* Summaries                                                               *)

GDocMime == "application/vnd.google-apps.document"

DocxMime == "application/vnd.openxmlformats-officedocument.wordprocessingml.document"

\* The mimeType test of lines 354-359 and 409-414, over the kinds modelled
Summarizable(mime) == mime \in {TextMime, PdfMime, GDocMime, DocxMime}

\* What the summary service may answer: a well-formed response, a thrown
\* error (network, quota, rejection), a response without candidates, a
\* candidate without content, a first part without text.
GeminiOutcomes == {"ok", "throws", "noCandidates", "noContent", "noText"}

GeminiFailures == GeminiOutcomes \ {"ok"}

\* How the processing of one file may fail: its download throws, or the
\* summary service fails.
FileFailures == {"get"} \cup GeminiFailures

SummaryText == "summary text"

ErrorGenerating == "Error generating summary: "

UnableToGenerate == "Unable to generate summary"

UnableToProcess == "Unable to process file: "

\* The JavaScript value undefined
Undefined == "undefined"

\* The strings that explain a failure to the user
ExplanatoryStrings == {ErrorGenerating, UnableToGenerate, UnableToProcess}

\* summarizeWithGemini: what it returns for each answer of the service.  A
\* candidate without content throws a TypeError inside the try block.
summarizeWithGemini(outcome) ==
    CASE outcome = "ok"           -> SummaryText
      [] outcome = "throws"       -> ErrorGenerating
      [] outcome = "noCandidates" -> UnableToGenerate
      [] outcome = "noContent"    -> ErrorGenerating
      [] outcome = "noText"       -> Undefined

\* The axios.post of summarizeWithGemini, with what the service answered
GeminiCall(file, outcome) ==
    [api |-> "gemini", name |-> file.name, id |-> file.id, ok |-> outcome = "ok",
     answer |-> outcome]

summarizeSpecificFile(st, exact, fileName, failAt, gem) ==
    IF failAt = 1
    THEN Outcome(Thrown("summary"), <<Call("files.list", fileName, NoId, FALSE)>>, st)
    ELSE LET c1 == <<Call("files.list", fileName, NoId, TRUE)>>
             searchResponse == FilesNamed(st, exact, fileName)
         IN  IF Len(searchResponse) = 0
             THEN Outcome(NotFound("File", fileName), c1, st)
             ELSE LET file == searchResponse[1]
                  IN  IF ~Summarizable(file.mimeType)
                      THEN Outcome([error |-> [tmpl |-> "File type cannot be summarized",
                                               arg |-> <<>>]], c1, st)
                      ELSE IF failAt = 2
                      THEN Outcome([error |-> [tmpl |-> UnableToProcess, arg |-> <<>>]],
                                   Append(c1, Call("files.get", <<>>, file.id, FALSE)), st)
                      ELSE Outcome([summaries |-> <<[fileName |-> file.name,
                                                     summary  |-> summarizeWithGemini(gem)]>>],
                                   c1 \o <<Call("files.get", <<>>, file.id, TRUE),
                                           GeminiCall(file, gem)>>,
                                   st)

RECURSIVE SummarizeEach(_, _, _, _, _, _)
\* The loop of summarizeFolder (lines 407-445) from file i of the page on.
\* The processing of the files at the positions bad fails the way how says:
\* "get" is a download that throws, the others are answers of the summary
\* service.
SummarizeEach(files, i, summaries, cs, bad, how) ==
    IF i > Len(files) THEN [summaries |-> summaries, calls |-> cs]
    ELSE IF ~Summarizable(files[i].mimeType)
    THEN SummarizeEach(files, i + 1, summaries, cs, bad, how)
    ELSE IF i \in bad /\ how = "get"
    THEN SummarizeEach(files, i + 1,
             Append(summaries, [fileName |-> files[i].name, summary |-> UnableToProcess]),
             Append(cs, Call("files.get", <<>>, files[i].id, FALSE)),
             bad, how)
    ELSE LET g == IF i \in bad THEN how ELSE "ok"
         IN  SummarizeEach(files, i + 1,
                 Append(summaries, [fileName |-> files[i].name,
                                    summary  |-> summarizeWithGemini(g)]),
                 cs \o <<Call("files.get", <<>>, files[i].id, TRUE), GeminiCall(files[i], g)>>,
                 bad, how)

summarizeFolder(st, exact, folderPath, failAt, bad, how) ==
    LET filesResult == listFiles(st, exact, folderPath, 1, failAt)
    IN  IF HasError(filesResult.result)
        THEN Outcome([error |-> filesResult.result.error], filesResult.calls, st)
        ELSE LET each == SummarizeEach(filesResult.result.files, 1, <<>>, filesResult.calls,
                                       bad, how)
             IN  Outcome([summaries |-> each.summaries], each.calls, st)

\* const isFilePath = path.includes('.') && !path.endsWith('/')
isFilePath(path) == includesChar(path, ".") /\ ~endsWith(path, Slash)

\* For a single file the one download is the second store call, and the one
\* summary call fails when position 1 is bad.
summarizeContent(st, exact, path, failAt, bad, how) ==
    IF isFilePath(path)
    THEN summarizeSpecificFile(st, exact, path,
                               IF 1 \in bad /\ how = "get" THEN 2 ELSE failAt,
                               IF 1 \in bad /\ how # "get" THEN how ELSE "ok")
    ELSE summarizeFolder(st, exact, path, failAt, bad, how)

-----------------------------------------------------------------------------
(* The audit logger                                                        *)

\* this.maxFiles = options.maxFiles || 5
maxFiles == 5

\* this.maxFileSize, in the unit the lines' sizes are counted in
maxFileSize == 3

\* level.toUpperCase()
LevelUpper(level) ==
    CASE level = "info"  -> "INFO"
      [] level = "warn"  -> "WARN"
      [] level = "error" -> "ERROR"

\* formatLogEntry; sid is the value generateSessionId() returns for this entry
\* (the timestamp is left out).
formatLogEntry(level, message, metadata, sid) ==
    [level |-> LevelUpper(level), message |-> message, metadata |-> metadata,
     sessionId |-> sid]

\* The size of the line JSON.stringify(entry) + '\n': a command entry carries
\* the parsed command and is counted as two units, an error entry carries the
\* stack and is counted as four (more than maxFileSize), every other entry as one.
LineSize(entry) ==
    CASE entry.metadata.type = "command_execution" -> 2
      [] entry.metadata.type = "error"             -> 4
      [] OTHER                                     -> 1

NoSegment == [exists |-> FALSE, lines |-> <<>>]

\* The names a segment may have in the log directory: audit.log (0) and
\* audit.log.1, audit.log.2, ...
SegmentNames == 0..(maxFiles + 2)

\* The log directory before the first write
EmptyLogDir == [i \in SegmentNames |-> NoSegment]

Segment(ls) == [exists |-> TRUE, lines |-> ls]

RECURSIVE SumSizes(_)
SumSizes(ls) == IF ls = <<>> THEN 0 ELSE ls[1].size + SumSizes(Tail(ls))

\* fs.statSync(logPath).size
statSize(files) == SumSizes(files[0].lines)

RECURSIVE ShiftFrom(_, _)
\* The loop of rotateLogFile from index i down to 1
ShiftFrom(files, i) ==
    IF i < 1 THEN files
    ELSE IF files[i].exists
    THEN IF i = maxFiles - 1
         THEN ShiftFrom([files EXCEPT ![i] = NoSegment], i - 1)
         ELSE ShiftFrom([files EXCEPT ![i + 1] = files[i], ![i] = NoSegment], i - 1)
    ELSE ShiftFrom(files, i - 1)

Fault(op, at) == [op |-> op, at |-> at]

NoFault == Fault("none", 0)

\* What the file system may do to one writeLogEntry: nothing; statSync throws;
\* the unlink or rename of segment .i in the rotation loop throws; the rename
\* of the active file throws; appendFileSync throws.
FsFaults ==
    {NoFault, Fault("stat", 0), Fault("rename", 0), Fault("append", 0)}
        \cup {Fault("shift", i) : i \in 1..(maxFiles - 1)}

RECURSIVE ShiftUntil(_, _, _)
\* The loop of rotateLogFile from index i down, left at the operation on
\* segment .stop, which throws
ShiftUntil(files, i, stop) ==
    IF i < 1 \/ i = stop THEN files
    ELSE IF files[i].exists
    THEN IF i = maxFiles - 1
         THEN ShiftUntil([files EXCEPT ![i] = NoSegment], i - 1, stop)
         ELSE ShiftUntil([files EXCEPT ![i + 1] = files[i], ![i] = NoSegment], i - 1, stop)
    ELSE ShiftUntil(files, i - 1, stop)

RECURSIVE ShiftAll(_, _)
\* A rotation loop that renames every segment from index i down and deletes none
ShiftAll(files, i) ==
    IF i < 1 THEN files
    ELSE IF files[i].exists
    THEN ShiftAll([files EXCEPT ![i + 1] = files[i], ![i] = NoSegment], i - 1)
    ELSE ShiftAll(files, i - 1)

\* rotateLogFile copying the active file to .1 and leaving it in place
rotateLogFile_CopyActive(files, fault) ==
    LET shifted == ShiftFrom(files, maxFiles - 1)
    IN  IF shifted[0].exists /\ fault.op # "rename"
        THEN [shifted EXCEPT ![1] = shifted[0]]
        ELSE shifted

\* rotateLogFile keeping every segment
rotateLogFile_KeepAll(files, fault) ==
    LET shifted == ShiftAll(files, maxFiles + 1)
    IN  IF shifted[0].exists /\ fault.op # "rename"
        THEN [shifted EXCEPT ![1] = shifted[0], ![0] = NoSegment]
        ELSE shifted

\* rotateLogFile: its try block ends at the operation that throws, and the
\* catch block only prints.
rotateLogFile(files, fault) ==
    IF fault.op = "shift" /\ files[fault.at].exists
    THEN ShiftUntil(files, maxFiles - 1, fault.at)
    ELSE LET shifted == ShiftFrom(files, maxFiles - 1)
         IN  IF shifted[0].exists /\ fault.op # "rename"
             THEN [shifted EXCEPT ![1] = shifted[0], ![0] = NoSegment]
             ELSE shifted

\* writeLogEntry appending the line before it rotates the active file
writeLogEntry_AppendFirst(files, entry, n, fault) ==
    LET line     == [seq |-> n, size |-> LineSize(entry)]
        appended == [files EXCEPT ![0] = Segment(Append(files[0].lines, line))]
    IN  IF files[0].exists /\ fault.op = "stat" THEN files
        ELSE IF fault.op = "append" THEN files
        ELSE IF files[0].exists /\ statSize(files) > maxFileSize
        THEN rotateLogFile(appended, fault)
        ELSE appended

\* writeLogEntry rotating as soon as the active file has reached maxFileSize
writeLogEntry_AtThreshold(files, entry, n, fault) ==
    LET line == [seq |-> n, size |-> LineSize(entry)]
    IN  IF files[0].exists /\ fault.op = "stat" THEN files
        ELSE LET f == IF files[0].exists /\ statSize(files) >= maxFileSize
                      THEN rotateLogFile(files, fault) ELSE files
             IN  IF fault.op = "append" THEN f
                 ELSE [f EXCEPT ![0] = Segment(Append(f[0].lines, line))]

\* writeLogEntry: rotate when the active file is larger than maxFileSize, then
\* append the line; n is the serial number of the line.
writeLogEntry(files, entry, n, fault) ==
    LET line == [seq |-> n, size |-> LineSize(entry)]
    IN  IF files[0].exists /\ fault.op = "stat" THEN files
        ELSE LET f == IF files[0].exists /\ statSize(files) > maxFileSize
                      THEN rotateLogFile(files, fault) ELSE files
             IN  IF fault.op = "append" THEN f
                 ELSE [f EXCEPT ![0] = Segment(Append(f[0].lines, line))]

\* The file operations whose errors writeLogEntry and rotateLogFile catch:
\* all of them are inside the try blocks of lines 58-70 and 77-98.
CaughtOps == {"stat", "shift", "rename", "append"}

\* writeLogEntry with appendFileSync outside its try block
writeLogEntryThrows_Append(fault) == fault.op = "append"

\* Whether writeLogEntry throws to the log method that called it
writeLogEntryThrows(fault) == fault.op \notin CaughtOps \cup {"none", "read"}

\* Whether the operation the fault is about is carried out by this write
FaultApplies(files, fault) ==
    LET rotates == files[0].exists /\ statSize(files) > maxFileSize
    IN  CASE fault.op = "none"   -> TRUE
          [] fault.op = "stat"   -> files[0].exists
          [] fault.op = "shift"  -> rotates /\ files[fault.at].exists
          [] fault.op = "rename" -> rotates
          [] fault.op = "append" -> TRUE

\* The value null passed as the sessionId of the webhook's catch block
NullSession == 0

\* getRecentLogs: the parsed lines of lines.slice(-count) of the active file;
\* [] when there is no active file or readFileSync throws.  Every line of the
\* file is the JSON of an entry, and is known here by its serial number.
getRecentLogs(files, count, fault) ==
    IF ~files[0].exists THEN <<>>
    ELSE IF fault.op = "read" THEN <<>>
    ELSE slice(files[0].lines, 0 - count, Len(files[0].lines))

logCommandEntry(command, params, sid) ==
    formatLogEntry("info", "WhatsApp command executed",
                   [type |-> "command_execution", command |-> command, params |-> params],
                   sid)

logDriveOperationEntry(operation, details, session, sid) ==
    formatLogEntry("info", "Google Drive operation",
                   [type |-> "drive_operation", operation |-> operation,
                    details |-> details, sessionId |-> session],
                   sid)

logAISummarizationEntry(summary, session, sid) ==
    formatLogEntry("info", "AI summarization completed",
                   [type |-> "ai_summarization", fileName |-> "folder",
                    fileType |-> "folder", summary |-> summary, sessionId |-> session],
                   sid)

logErrorEntry(context, session, sid) ==
    formatLogEntry("error", "Operation failed",
                   [type |-> "error", context |-> context, sessionId |-> session],
                   sid)

\* logSecurityEvent written at level info
logSecurityEventEntry_Info(event, details, session, sid) ==
    formatLogEntry("info", "Security event",
                   [type |-> "security_event", event |-> event,
                    details |-> details, sessionId |-> session],
                   sid)

logSecurityEventEntry(event, details, session, sid) ==
    formatLogEntry("warn", "Security event",
                   [type |-> "security_event", event |-> event,
                    details |-> details, sessionId |-> session],
                   sid)

-----------------------------------------------------------------------------
(* formatWhatsAppResponse: a reply is its template and the strings          *)
(* interpolated into it, in order.                                          *)

Reply(text, args) == [text |-> text, detail |-> "", args |-> args]

\* The prompt's text without the space in front of CONFIRM
ConfirmText_NoSpace(filePath) == kwDELETE \o <<" ">> \o filePath \o kwCONFIRM

\* `DELETE ${filePath} CONFIRM`: the text the prompt tells the user to send
ConfirmText(filePath) == kwDELETE \o <<" ">> \o filePath \o <<" ">> \o kwCONFIRM

\* `Error: ${result.error}`
ErrorReply(res) == [text |-> "Error", detail |-> res.error.tmpl, args |-> <<res.error.arg>>]

formatWhatsAppResponse(command, res, commandData) ==
    CASE command = "LIST" ->
            IF HasError(res) THEN ErrorReply(res)
            ELSE IF Len(res.files) > 0
            THEN Reply("Files", [i \in 1..Len(res.files) |-> res.files[i].name])
            ELSE Reply("No files found in the specified folder.", <<>>)
      [] command = "DELETE_REQUEST" ->
            Reply("DELETE CONFIRMATION REQUIRED",
                  <<commandData.path, ConfirmText(commandData.path)>>)
      [] command = "DELETE_CONFIRM" ->
            IF HasError(res) THEN ErrorReply(res)
            ELSE Reply("deleted successfully", <<res.fileName>>)
      [] command = "MOVE" ->
            IF HasError(res) THEN ErrorReply(res)
            ELSE Reply("moved successfully", <<res.fileName, res.destination>>)
      [] command = "SUMMARY" ->
            IF HasError(res) THEN ErrorReply(res)
            ELSE IF Len(res.summaries) > 0
            THEN Reply("Document Summaries",
                       [i \in 1..Len(res.summaries) |-> res.summaries[i].fileName])
            ELSE Reply("No summarizable documents found in the folder.", <<>>)
      [] command = "HELP" -> Reply("Available commands", <<>>)
      [] OTHER -> Reply("Unknown command. Send HELP to see available commands.", <<>>)

-----------------------------------------------------------------------------
(* Bounds of the model                                                     *)

\* Webhook requests handled in one behaviour
MaxMsgs == 2

\* Values generateSessionId() may return
MaxSessionIds == 2

\* File-system errors raised in one behaviour
MaxFaults == 1

\* Ordinals of the remote store calls of one operation that may be made to throw
MaxCalls == 5

\* Positions of a folder's page whose download or summary may be made to fail
MaxFolderFiles == 4

SessionIds == 1..MaxSessionIds

-----------------------------------------------------------------------------
(* The store and the messages of the main specification                    *)

nArchive == <<"A","r","c","h","i","v","e">>

nDocuments == <<"D","o","c","u","m","e","n","t","s">>

nReport == <<"r","e","p","o","r","t",".","p","d","f">>

nResume == <<"r","e","s","u","m","e",".","p","d","f">>

nNotes == <<"N","O","T","E","S",".","T","X","T">>

nPhoto == <<"p","h","o","t","o",".","p","n","g">>

\* The entries: 1 Archive and 2 Documents are folders under root; 3 report.pdf
\* has the parents ps; 4 resume.pdf, 5 NOTES.TXT, 6 photo.png are in Documents.
StoreWith(ps) ==
    (1 :> Entry(nArchive, FolderMime, {RootId})) @@
    (2 :> Entry(nDocuments, FolderMime, {RootId})) @@
    (3 :> Entry(nReport, PdfMime, ps)) @@
    (4 :> Entry(nResume, PdfMime, {2})) @@
    (5 :> Entry(nNotes, TextMime, {2})) @@
    (6 :> Entry(nPhoto, PngMime, {2}))

\* report.pdf with one parent, with two, and with two of which one is Archive
InitialStores == {StoreWith({RootId}), StoreWith({RootId, 2}), StoreWith({1, 2})}

\* A Body that is not a string (a repeated form field parses to an array)
NotAString == <<"[array]">>

Bodies == {
    <<>>,
    NotAString,
    \* "list /"
    <<"l","i","s","t"," ","/">>,
    \* "LIST Documents"
    <<"L","I","S","T"," ","D","o","c","u","m","e","n","t","s">>,
    \* "List documents page 2"
    <<"L","i","s","t"," ","d","o","c","u","m","e","n","t","s"," ","p","a","g","e"," ","2">>,
    \* "list documents page x"
    <<"l","i","s","t"," ","d","o","c","u","m","e","n","t","s"," ","p","a","g","e"," ","x">>,
    \* "delete report.pdf"
    <<"d","e","l","e","t","e"," ","r","e","p","o","r","t",".","p","d","f">>,
    \* "DELETE report.pdf CONFIRM"
    <<"D","E","L","E","T","E"," ","r","e","p","o","r","t",".","p","d","f"," ","C","O","N","F","I","R","M">>,
    \* "delete nosuch.txt confirm"
    <<"d","e","l","e","t","e"," ","n","o","s","u","c","h",".","t","x","t"," ","c","o","n","f","i","r","m">>,
    \* "move report.pdf archive"
    <<"m","o","v","e"," ","r","e","p","o","r","t",".","p","d","f"," ","a","r","c","h","i","v","e">>,
    \* "MOVE report.pdf /"
    <<"M","O","V","E"," ","r","e","p","o","r","t",".","p","d","f"," ","/">>,
    \* "move report.pdf nowhere"
    <<"m","o","v","e"," ","r","e","p","o","r","t",".","p","d","f"," ","n","o","w","h","e","r","e">>,
    \* "summary resume.pdf"
    <<"s","u","m","m","a","r","y"," ","r","e","s","u","m","e",".","p","d","f">>,
    \* "SUMMARY NOTES.TXT"
    <<"S","U","M","M","A","R","Y"," ","N","O","T","E","S",".","T","X","T">>,
    \* "summary photo.png"
    <<"s","u","m","m","a","r","y"," ","p","h","o","t","o",".","p","n","g">>,
    \* "summary Documents"
    <<"s","u","m","m","a","r","y"," ","D","o","c","u","m","e","n","t","s">>,
    \* "help"
    <<"h","e","l","p">>,
    \* "hello"
    <<"h","e","l","l","o">>,
    \* " "
    <<" ">>
}

-----------------------------------------------------------------------------
(* The webhook handler, app.post('/whatsapp-webhook')                      *)

NoIntent == Intent("NONE", <<>>, <<>>, 0)

NoReply == Reply("none", <<>>)

NoResult == <<>>

Init ==
    /\ store \in InitialStores
    /\ exactCS \in BOOLEAN
    /\ logFiles = EmptyLogDir
    /\ written = 0
    /\ handled = 0
    /\ pc = "idle"
    /\ body = <<>>
    /\ parsed = NoIntent
    /\ sessionId = NullSession
    /\ result = NoResult
    /\ calls = <<>>
    /\ events = <<>>
    /\ reply = NoReply
    /\ http = "none"
    /\ requested = {}
    /\ faultsLeft = MaxFaults

\* A logger method: format the entry, write it to the audit log.  Were the
\* write to throw inside the handler's try block, the catch block of lines
\* 647-651 would log the error in its turn.
Record(entry, fault, inTry) ==
    LET catchEntry == logErrorEntry("webhook_processing", NullSession, entry.sessionId)
        first      == writeLogEntry(logFiles, entry, written + 1, fault)
    IN  /\ FaultApplies(logFiles, fault)
        /\ fault # NoFault => faultsLeft > 0
        /\ faultsLeft' = IF fault = NoFault THEN faultsLeft ELSE faultsLeft - 1
        /\ IF writeLogEntryThrows(fault) /\ inTry
           THEN /\ events' = events \o <<entry, catchEntry>>
                /\ written' = written + 2
                /\ logFiles' = writeLogEntry(first, catchEntry, written + 2, NoFault)
           ELSE /\ events' = Append(events, entry)
                /\ written' = written + 1
                /\ logFiles' = first

\* Lines 563-584: a request arrives.  An empty Body is ignored; a Body that
\* is no string makes parseCommand throw, which the handler's catch block
\* logs and answers with status 500; else the command is parsed and logged.
Receive(b) ==
    /\ pc = "idle"
    /\ handled < MaxMsgs
    /\ handled' = handled + 1
    /\ body' = b
    /\ IF b = <<>>
       THEN /\ pc' = "done"
            /\ http' = "ignored"
            /\ UNCHANGED <<parsed, sessionId, events, logFiles, written, faultsLeft>>
       ELSE IF b = NotAString
       THEN /\ pc' = "done"
            /\ \E sid \in SessionIds, fault \in FsFaults :
                  /\ Record(logErrorEntry("webhook_processing", NullSession, sid), fault, FALSE)
                  /\ http' = IF writeLogEntryThrows(fault) THEN "none" ELSE "error 500"
            /\ UNCHANGED <<parsed, sessionId>>
       ELSE /\ parsed' = parseCommand(b)
            /\ \E sid \in SessionIds, fault \in FsFaults :
                  /\ Record(logCommandEntry(parsed'.command, parsed', sid), fault, TRUE)
                  /\ IF writeLogEntryThrows(fault)
                     THEN /\ pc' = "done"
                          /\ http' = "error 500"
                          /\ UNCHANGED sessionId
                     ELSE /\ pc' = "parsed"
                          /\ sessionId' = sid
                          /\ UNCHANGED http
    /\ UNCHANGED <<store, exactCS, result, calls, reply, requested>>

\* The end of a switch branch: the operation's outcome, its audit entry, and
\* the reply text (line 631).
Finish(out, entry) ==
    /\ store' = out.store
    /\ result' = out.result
    /\ calls' = out.calls
    /\ \E fault \in FsFaults :
          /\ Record(entry, fault, TRUE)
          /\ IF writeLogEntryThrows(fault)
             THEN /\ pc' = "done"
                  /\ http' = "error 500"
                  /\ UNCHANGED reply
             ELSE /\ reply' = formatWhatsAppResponse(parsed.command, out.result, parsed)
                  /\ pc' = "executed"
                  /\ UNCHANGED http
    /\ UNCHANGED <<exactCS, handled, body, parsed, sessionId>>

\* case 'LIST'
ExecList ==
    /\ pc = "parsed"
    /\ parsed.command = "LIST"
    /\ \E failAt \in 0..MaxCalls, sid \in SessionIds :
          Finish(listFiles(store, exactCS, parsed.path, parsed.page, failAt),
                 logDriveOperationEntry("list", parsed.path, sessionId, sid))
    /\ UNCHANGED requested

\* case 'DELETE_REQUEST'
ExecDeleteRequest ==
    /\ pc = "parsed"
    /\ parsed.command = "DELETE_REQUEST"
    /\ \E sid \in SessionIds :
          Finish(Outcome([filePath |-> parsed.path], <<>>, store),
                 logSecurityEventEntry("delete_request", parsed.path, sessionId, sid))
    /\ requested' = requested \cup {parsed.path}

\* case 'DELETE_CONFIRM'
ExecDeleteConfirm ==
    /\ pc = "parsed"
    /\ parsed.command = "DELETE_CONFIRM"
    /\ \E failAt \in 0..MaxCalls, sid \in SessionIds :
          Finish(deleteFile(store, exactCS, parsed.path, failAt),
                 logDriveOperationEntry("delete", parsed.path, sessionId, sid))
    /\ UNCHANGED requested

\* case 'MOVE'
ExecMove ==
    /\ pc = "parsed"
    /\ parsed.command = "MOVE"
    /\ \E failAt \in 0..MaxCalls, addFirst \in BOOLEAN, sid \in SessionIds :
          Finish(moveFile(store, exactCS, parsed.path, parsed.destinationPath,
                          failAt, addFirst),
                 logDriveOperationEntry("move", parsed.path, sessionId, sid))
    /\ UNCHANGED requested

\* case 'SUMMARY'
ExecSummary ==
    /\ pc = "parsed"
    /\ parsed.command = "SUMMARY"
    /\ \E failAt \in 0..MaxCalls, bad \in SUBSET (1..MaxFolderFiles),
          how \in FileFailures, sid \in SessionIds :
          /\ failAt = 0 \/ bad = {}
          /\ bad = {} => how = "get"
          /\ LET out == summarizeContent(store, exactCS, parsed.path, failAt, bad, how)
             IN  Finish(out,
                     logAISummarizationEntry(
                         IF "summaries" \in DOMAIN out.result THEN "summaries" ELSE "error",
                         sessionId, sid))
    /\ UNCHANGED requested

\* case 'HELP', case 'UNKNOWN', default
ExecOther ==
    /\ pc = "parsed"
    /\ parsed.command \in {"HELP", "UNKNOWN"}
    /\ result' = NoResult
    /\ reply' = formatWhatsAppResponse(parsed.command, NoResult, parsed)
    /\ pc' = "executed"
    /\ UNCHANGED <<store, exactCS, logFiles, written, handled, body, parsed,
                   sessionId, calls, events, http, requested, faultsLeft>>

\* Lines 633-645: the reply is sent; a failure to send is logged; the
\* transport is answered 'success' either way.
Send ==
    /\ pc = "executed"
    /\ \/ /\ UNCHANGED <<events, logFiles, written, faultsLeft>>
          /\ http' = "success"
       \/ \E sid \in SessionIds, fault \in FsFaults :
             /\ Record(logErrorEntry("whatsapp_send", sessionId, sid), fault, TRUE)
             /\ http' = IF writeLogEntryThrows(fault) THEN "error 500" ELSE "success"
    /\ pc' = "done"
    /\ UNCHANGED <<store, exactCS, handled, body, parsed, sessionId, result, calls,
                   reply, requested>>

\* The handler has returned; its locals are gone.
Return ==
    /\ pc = "done"
    /\ pc' = "idle"
    /\ body' = <<>>
    /\ parsed' = NoIntent
    /\ sessionId' = NullSession
    /\ result' = NoResult
    /\ calls' = <<>>
    /\ events' = <<>>
    /\ reply' = NoReply
    /\ http' = "none"
    /\ UNCHANGED <<store, exactCS, logFiles, written, handled, requested, faultsLeft>>

Next ==
    \/ \E b \in Bodies : Receive(b)
    \/ ExecList
    \/ ExecDeleteRequest
    \/ ExecDeleteConfirm
    \/ ExecMove
    \/ ExecSummary
    \/ ExecOther
    \/ Send
    \/ Return

Spec == Init /\ [][Next]_vars

-----------------------------------------------------------------------------
(* parseCommand on its own: every message of at most MaxWords words of the  *)
(* vocabulary, in four writings.                                            *)

MaxWords == 4

Words == {kwLIST, kwPAGE, kwDELETE, kwCONFIRM, kwMOVE, kwSUMMARY, kwHELP,
          <<"a",".","B">>, <<"/","f",".","t">>, <<"2">>, <<"0">>}

RECURSIVE Join(_, _)
\* The words ws with sep between them
Join(ws, sep) ==
    IF Len(ws) = 0 THEN <<>>
    ELSE IF Len(ws) = 1 THEN ws[1]
    ELSE ws[1] \o sep \o Join(Tail(ws), sep)

WordSeqs == UNION {[1..n -> Words] : n \in 0..MaxWords}

\* A message as typed: upper case with single spaces; lower case; padded, with
\* two spaces between the words; with a line break between the words.
Writing(ws, k) ==
    CASE k = 1 -> Join(ws, <<" ">>)
      [] k = 2 -> toLowerCase(Join(ws, <<" ">>))
      [] k = 3 -> <<" ">> \o Join(ws, <<" ", " ">>) \o <<" ">>
      [] k = 4 -> Join(ws, <<"\n">>)

WritingKinds == 1..4

ParseInit ==
    /\ store = StoreWith({RootId})
    /\ exactCS = TRUE
    /\ logFiles = EmptyLogDir
    /\ written = 0
    /\ handled = 0
    /\ pc = "input"
    /\ \E ws \in WordSeqs, k \in WritingKinds : body = Writing(ws, k)
    /\ parsed = NoIntent
    /\ sessionId = NullSession
    /\ result = NoResult
    /\ calls = <<>>
    /\ events = <<>>
    /\ reply = NoReply
    /\ http = "none"
    /\ requested = {}
    /\ faultsLeft = 0

\* const parsedCommand = parseCommand(messageBody)
Parse ==
    /\ pc = "input"
    /\ parsed' = parseCommand(body)
    /\ pc' = "output"
    /\ UNCHANGED <<store, exactCS, logFiles, written, handled, body, sessionId,
                   result, calls, events, reply, http, requested, faultsLeft>>

\* The user answers the prompt of a DELETE_REQUEST with the text it tells
\* them to send, and that message is parsed in its turn.
ParsePrompt ==
    /\ pc = "output"
    /\ parsed.command = "DELETE_REQUEST"
    /\ requested' = {parsed.path}
    /\ reply' = formatWhatsAppResponse(parsed.command, [filePath |-> parsed.path], parsed)
    /\ body' = reply'.args[2]
    /\ parsed' = parseCommand(body')
    /\ pc' = "answered"
    /\ UNCHANGED <<store, exactCS, logFiles, written, handled, sessionId, result, calls,
                   events, http, faultsLeft>>

ParseNext ==
    \/ Parse
    \/ ParsePrompt

ParseSpec == ParseInit /\ [][ParseNext]_vars

-----------------------------------------------------------------------------
(* listFiles on folders of every size up to MaxChildren                    *)

MaxChildren == 21

MaxPage == 4

nBig == <<"B","I","G">>

BigFolderId == RootId + 1

\* The decimal writing of a number below 100
Decimal(k) == IF k < 10 THEN <<Digits[k + 1]>> ELSE <<Digits[(k \div 10) + 1], Digits[(k % 10) + 1]>>

\* Child i of n is entry 100 + i and is named F<n - i>, two digits: the order
\* of the names is the reverse of the order of the ids.
ChildName(n, i) == <<"F", Digits[((n - i) \div 10) + 1], Digits[((n - i) % 10) + 1]>>

\* A store with the folder BIG under root and n files in it
BigStore(n) ==
    [id \in {BigFolderId} \cup {100 + i : i \in 1..n} |->
        IF id = BigFolderId THEN Entry(nBig, FolderMime, {RootId})
        ELSE Entry(ChildName(n, id - 100), TextMime, {BigFolderId})]

\* "LIST big PAGE <k>"
PageBody(k) == kwLIST \o <<" ">> \o toLowerCase(nBig) \o <<" ">> \o kwPAGE \o <<" ">> \o Decimal(k)

PageInit ==
    /\ \E n \in 0..MaxChildren : store = BigStore(n)
    /\ exactCS \in BOOLEAN
    /\ logFiles = EmptyLogDir
    /\ written = 0
    /\ handled = 0
    /\ pc = "idle"
    /\ body = <<>>
    /\ parsed = NoIntent
    /\ sessionId = NullSession
    /\ result = NoResult
    /\ calls = <<>>
    /\ events = <<>>
    /\ reply = NoReply
    /\ http = "none"
    /\ requested = {}
    /\ faultsLeft = 0

PageNext ==
    \/ \E k \in 1..MaxPage : Receive(PageBody(k))
    \/ ExecList
    \/ Send
    \/ Return

PageSpec == PageInit /\ [][PageNext]_vars

-----------------------------------------------------------------------------
(* The audit logger on its own: writes of entries of every size, and reads  *)

\* Entries written in one behaviour
MaxWrites == 7

\* The largest count asked of getRecentLogs
MaxCount == 3

\* One entry of each size
LogEntries ==
    {logCommandEntry("HELP", Intent("HELP", <<>>, <<>>, 0), 1),
     logDriveOperationEntry("list", Slash, 1, 1),
     logErrorEntry("whatsapp_send", 1, 1)}

LogInit ==
    /\ store = StoreWith({RootId})
    /\ exactCS = TRUE
    /\ logFiles = EmptyLogDir
    /\ written = 0
    /\ handled = 0
    /\ pc = "logger"
    /\ body = <<>>
    /\ parsed = NoIntent
    /\ sessionId = NullSession
    /\ result = NoResult
    /\ calls = <<>>
    /\ events = <<>>
    /\ reply = NoReply
    /\ http = "none"
    /\ requested = {}
    /\ faultsLeft \in 0..MaxFaults

\* A log method is called
LogWrite ==
    /\ pc = "logger"
    /\ written < MaxWrites
    /\ \E entry \in LogEntries, fault \in FsFaults : Record(entry, fault, FALSE)
    /\ UNCHANGED <<store, exactCS, handled, pc, body, parsed, sessionId, result, calls,
                   reply, http, requested>>

\* getRecentLogs(count) is called
LogRead ==
    /\ pc = "logger"
    /\ \E count \in 0..MaxCount, fault \in {NoFault, Fault("read", 0)} :
          /\ fault # NoFault => faultsLeft > 0 /\ logFiles[0].exists
          /\ result' = [count |-> count, entries |-> getRecentLogs(logFiles, count, fault)]
          /\ faultsLeft' = IF fault = NoFault THEN faultsLeft ELSE faultsLeft - 1
    /\ pc' = "read"
    /\ UNCHANGED <<store, exactCS, logFiles, written, handled, body, parsed, sessionId,
                   calls, events, reply, http, requested>>

\* The caller is done with what it read
LogReturn ==
    /\ pc = "read"
    /\ pc' = "logger"
    /\ result' = NoResult
    /\ UNCHANGED <<store, exactCS, logFiles, written, handled, body, parsed, sessionId,
                   calls, events, reply, http, requested, faultsLeft>>

LogNext ==
    \/ LogWrite
    \/ LogRead
    \/ LogReturn

LogSpec == LogInit /\ [][LogNext]_vars

-----------------------------------------------------------------------------
(* listFiles, deleteFile and moveFile called on their own, with names in    *)
(* every casing, on stores that hold several entries of a name              *)

\* Calls made in one behaviour
MaxOps == 2

nLowerDocuments == toLowerCase(nDocuments)

nCapReport == <<"R">> \o Tail(nReport)

nNoSuch == <<"n","o","s","u","c","h">>

\* 1 Documents and 2 documents are folders under root; 3 report.pdf is in
\* Documents, 4 Report.pdf in documents, 5 report.pdf under root; 6 Archive is
\* a folder under root.
DupEntries ==
    (1 :> Entry(nDocuments, FolderMime, {RootId})) @@
    (2 :> Entry(nLowerDocuments, FolderMime, {RootId})) @@
    (3 :> Entry(nReport, PdfMime, {1})) @@
    (4 :> Entry(nCapReport, PdfMime, {2})) @@
    (5 :> Entry(nReport, PdfMime, {RootId})) @@
    (6 :> Entry(nArchive, FolderMime, {RootId}))

\* The store that holds the entries ids
DupStore(ids) == [id \in ids |-> DupEntries[id]]

\* The stores called on: all six entries; one folder only, Documents or
\* documents; one report.pdf less; Report.pdf alone among the files
DupStores ==
    {DupStore({1, 2, 3, 4, 5, 6}), DupStore({1, 3, 5, 6}), DupStore({2, 4, 5, 6}),
     DupStore({1, 2, 3, 4, 6}), DupStore({1, 2, 4, 6})}

FolderQueries == {nDocuments, nLowerDocuments, toUpperCase(nDocuments), nNoSuch}

FileQueries == {nReport, toUpperCase(nReport), nNoSuch}

\* The entry a call selected: the one its last remote call names, or none
Selected(out) ==
    IF HasError(out.result) \/ out.calls = <<>> THEN NoId
    ELSE out.calls[Len(out.calls)].id

CallInit ==
    /\ store \in DupStores
    /\ exactCS \in BOOLEAN
    /\ logFiles = EmptyLogDir
    /\ written = 0
    /\ handled = 0
    /\ pc = "ready"
    /\ body = <<>>
    /\ parsed = NoIntent
    /\ sessionId = NullSession
    /\ result = NoResult
    /\ calls = <<>>
    /\ events = <<>>
    /\ reply = NoReply
    /\ http = "none"
    /\ requested = {}
    /\ faultsLeft = 0

\* The call returns: its arguments, its result, the calls it issued, the store
\* after it; the history keeps the store it ran on and the entry it selected.
Called(intent, out) ==
    /\ pc = "ready"
    /\ handled < MaxOps
    /\ handled' = handled + 1
    /\ parsed' = intent
    /\ result' = out.result
    /\ calls' = out.calls
    /\ store' = out.store
    /\ requested' = requested \cup {[intent |-> intent, on |-> store,
                                      selected |-> Selected(out)]}
    /\ pc' = "called"
    /\ UNCHANGED <<exactCS, logFiles, written, body, sessionId, events, reply, http,
                   faultsLeft>>

CallListFiles ==
    \E q \in FolderQueries, failAt \in 0..MaxCalls :
        Called(Intent("LIST", q, <<>>, 1), listFiles(store, exactCS, q, 1, failAt))

CallDeleteFile ==
    \E q \in FileQueries, failAt \in 0..MaxCalls :
        Called(Intent("DELETE_CONFIRM", q, <<>>, 0), deleteFile(store, exactCS, q, failAt))

CallMoveFile ==
    \E q \in FileQueries, d \in FolderQueries, failAt \in 0..MaxCalls, addFirst \in BOOLEAN :
        Called(Intent("MOVE", q, d, 0), moveFile(store, exactCS, q, d, failAt, addFirst))

\* The caller is done with the result
CallReturn ==
    /\ pc = "called"
    /\ pc' = "ready"
    /\ parsed' = NoIntent
    /\ result' = NoResult
    /\ calls' = <<>>
    /\ UNCHANGED <<store, exactCS, logFiles, written, handled, body, sessionId, events,
                   reply, http, requested, faultsLeft>>

CallNext ==
    \/ CallListFiles
    \/ CallDeleteFile
    \/ CallMoveFile
    \/ CallReturn

CallSpec == CallInit /\ [][CallNext]_vars

-----------------------------------------------------------------------------
(* Several webhook requests in flight.  A handler runs without interruption *)
(* from one await to the next: it gives way to the other handlers only      *)
(* while its operation is awaited (lines 591-615) and while the sending of  *)
(* its reply is awaited (line 635).  The store calls of one operation are   *)
(* taken together at the point where the operation returns: no audit record *)
(* is written between them.  Here pc, body, parsed, sessionId, result,      *)
(* calls, events, reply and http have one value per handler, and events     *)
(* holds what the handler recorded, each entry with its serial number.      *)
(* The values of generateSessionId are taken to be the handler's number.    *)

\* Handlers that may be in flight together
MaxHandlers == 2

\* Webhook requests received in one behaviour
MaxConcMsgs == 3

Handlers == 1..MaxHandlers

ConcBodies == {
    \* "list /"
    <<"l","i","s","t"," ","/">>,
    \* "delete report.pdf"
    <<"d","e","l","e","t","e"," ","r","e","p","o","r","t",".","p","d","f">>,
    \* "DELETE report.pdf CONFIRM"
    <<"D","E","L","E","T","E"," ","r","e","p","o","r","t",".","p","d","f"," ","C","O","N","F","I","R","M">>,
    \* "help"
    <<"h","e","l","p">>
}

RECURSIVE WriteAll(_, _, _)
\* The log methods called one after the other with no await between them:
\* the entries are written in order, with the serial numbers n + 1, n + 2, ...
WriteAll(files, entries, n) ==
    IF entries = <<>> THEN files
    ELSE WriteAll(writeLogEntry(files, Head(entries), n + 1, NoFault), Tail(entries), n + 1)

\* What a handler remembers of the entries it recorded
Recorded(entries, n) ==
    [i \in DOMAIN entries |-> [seq |-> n + i, type |-> entries[i].metadata.type]]

\* Handler h calls the log methods for the entries, one after the other
ConcRecord(h, entries) ==
    /\ logFiles' = WriteAll(logFiles, entries, written)
    /\ written' = written + Len(entries)
    /\ events' = [events EXCEPT ![h] = events[h] \o Recorded(entries, written)]

ConcInit ==
    /\ store = StoreWith({RootId})
    /\ exactCS = TRUE
    /\ logFiles = EmptyLogDir
    /\ written = 0
    /\ handled = 0
    /\ pc = [h \in Handlers |-> "idle"]
    /\ body = [h \in Handlers |-> <<>>]
    /\ parsed = [h \in Handlers |-> NoIntent]
    /\ sessionId = [h \in Handlers |-> NullSession]
    /\ result = [h \in Handlers |-> NoResult]
    /\ calls = [h \in Handlers |-> <<>>]
    /\ events = [h \in Handlers |-> <<>>]
    /\ reply = [h \in Handlers |-> NoReply]
    /\ http = [h \in Handlers |-> "none"]
    /\ requested = {}
    /\ faultsLeft = 0

\* Lines 563-599 and 623-635: a request arrives at handler h, which runs up to
\* its first await: the operation's for LIST and DELETE_CONFIRM, the sending
\* of the reply for DELETE_REQUEST and HELP.
ConcReceive(h, b) ==
    /\ pc[h] = "idle"
    /\ handled < MaxConcMsgs
    /\ handled' = handled + 1
    /\ body' = [body EXCEPT ![h] = b]
    /\ LET p == parseCommand(b)
       IN  /\ parsed' = [parsed EXCEPT ![h] = p]
           /\ \E sid \in {h} :
                 /\ sessionId' = [sessionId EXCEPT ![h] = sid]
                 /\ CASE p.command = "DELETE_REQUEST" ->
                           /\ ConcRecord(h, <<logCommandEntry(p.command, p, sid),
                                              logSecurityEventEntry("delete_request", p.path,
                                                                    sid, sid)>>)
                           /\ result' = [result EXCEPT ![h] = [filePath |-> p.path]]
                           /\ reply' = [reply EXCEPT ![h] =
                                  formatWhatsAppResponse(p.command, [filePath |-> p.path], p)]
                           /\ requested' = requested \cup {p.path}
                           /\ pc' = [pc EXCEPT ![h] = "sending"]
                      [] p.command \in {"HELP", "UNKNOWN"} ->
                           /\ ConcRecord(h, <<logCommandEntry(p.command, p, sid)>>)
                           /\ reply' = [reply EXCEPT ![h] =
                                  formatWhatsAppResponse(p.command, NoResult, p)]
                           /\ pc' = [pc EXCEPT ![h] = "sending"]
                           /\ UNCHANGED <<result, requested>>
                      [] OTHER ->
                           /\ ConcRecord(h, <<logCommandEntry(p.command, p, sid)>>)
                           /\ pc' = [pc EXCEPT ![h] = "awaiting"]
                           /\ UNCHANGED <<result, reply, requested>>
    /\ UNCHANGED <<store, exactCS, calls, http, faultsLeft>>

\* Lines 591-593, 602-604 and 631-635: the operation handler h awaited
\* returns; h records it, builds the reply and starts to send it.
ConcExec(h) ==
    /\ pc[h] = "awaiting"
    /\ \E failAt \in 0..1, sid \in {h} :
          LET p   == parsed[h]
              out == IF p.command = "LIST"
                     THEN listFiles(store, exactCS, p.path, p.page, failAt)
                     ELSE deleteFile(store, exactCS, p.path, failAt)
              op  == IF p.command = "LIST" THEN "list" ELSE "delete"
          IN  /\ p.command \in {"LIST", "DELETE_CONFIRM"}
              /\ store' = out.store
              /\ result' = [result EXCEPT ![h] = out.result]
              /\ calls' = [calls EXCEPT ![h] = out.calls]
              /\ ConcRecord(h, <<logDriveOperationEntry(op, p.path, sessionId[h], sid)>>)
              /\ reply' = [reply EXCEPT ![h] = formatWhatsAppResponse(p.command, out.result, p)]
    /\ pc' = [pc EXCEPT ![h] = "sending"]
    /\ UNCHANGED <<exactCS, handled, body, parsed, sessionId, http, requested, faultsLeft>>

\* Lines 635-645: the sending handler h awaited returns or throws; a failure
\* is recorded; the transport is answered.
ConcSend(h) ==
    /\ pc[h] = "sending"
    /\ \/ UNCHANGED <<logFiles, written, events>>
       \/ \E sid \in {h} :
             ConcRecord(h, <<logErrorEntry("whatsapp_send", sessionId[h], sid)>>)
    /\ http' = [http EXCEPT ![h] = "success"]
    /\ pc' = [pc EXCEPT ![h] = "done"]
    /\ UNCHANGED <<store, exactCS, handled, body, parsed, sessionId, result, calls,
                   reply, requested, faultsLeft>>

\* Handler h has returned; its locals are gone.
ConcReturn(h) ==
    /\ pc[h] = "done"
    /\ pc' = [pc EXCEPT ![h] = "idle"]
    /\ body' = [body EXCEPT ![h] = <<>>]
    /\ parsed' = [parsed EXCEPT ![h] = NoIntent]
    /\ sessionId' = [sessionId EXCEPT ![h] = NullSession]
    /\ result' = [result EXCEPT ![h] = NoResult]
    /\ calls' = [calls EXCEPT ![h] = <<>>]
    /\ events' = [events EXCEPT ![h] = <<>>]
    /\ reply' = [reply EXCEPT ![h] = NoReply]
    /\ http' = [http EXCEPT ![h] = "none"]
    /\ UNCHANGED <<store, exactCS, logFiles, written, handled, requested, faultsLeft>>

ConcNext ==
    \/ \E h \in Handlers, b \in ConcBodies : ConcReceive(h, b)
    \/ \E h \in Handlers : ConcExec(h)
    \/ \E h \in Handlers : ConcSend(h)
    \/ \E h \in Handlers : ConcReturn(h)

ConcSpec == ConcInit /\ [][ConcNext]_vars

-----------------------------------------------------------------------------
(* cleanOldLogs called on a log directory whose segments have any           *)
(* modification times.  Here every segment carries its modification time,   *)
(* counted in days, and the sweep is made at the time Now.                   *)

\* The time of the sweep, in days; modification times lie in 0..Now
Now == 3

\* The largest daysToKeep passed to cleanOldLogs
MaxDays == 3

\* A file of the log directory with its modification time
Dated(exists, lines, mtime) == [exists |-> exists, lines |-> lines, mtime |-> mtime]

NoDated == Dated(FALSE, <<>>, 0)

\* The directories with the active file and the segments .1 to .(k-1), each
\* of one line, of every k and every modification times
DatedDirs ==
    {[i \in SegmentNames |->
         IF i < k THEN Dated(TRUE, <<[seq |-> k - i, size |-> 1]>>, m[i]) ELSE NoDated] :
     k \in 0..maxFiles, m \in [0..(maxFiles - 1) -> 0..Now]}

\* file.stats.mtime < cutoffDate, the cutoff being daysToKeep days before now
OlderThan(files, now, daysToKeep) ==
    {i \in SegmentNames : files[i].exists /\ files[i].mtime < now - daysToKeep}

\* The same with the files modified at the cutoff taken as old
OlderThan_AtCutoff(files, now, daysToKeep) ==
    {i \in SegmentNames : files[i].exists /\ files[i].mtime <= now - daysToKeep}

\* cleanOldLogs deleting also the files modified exactly at the cutoff
cleanOldLogs_AtCutoff(files, now, daysToKeep, fault, done) ==
    LET gone == CASE fault.op = "stat"   -> {}
                  [] fault.op = "unlink" -> done
                  [] OTHER               -> OlderThan_AtCutoff(files, now, daysToKeep)
    IN  [i \in SegmentNames |-> IF i \in gone THEN NoDated ELSE files[i]]

\* cleanOldLogs: the files of the directory whose name starts with the log
\* file's are stat-ed, then those older than the cutoff are unlinked, in the
\* order readdirSync gave them.  The whole is one try block: when a statSync
\* throws nothing is unlinked, and when the unlink of segment fault.at throws
\* the files unlinked before it, done, are gone and the others stay.
cleanOldLogs(files, now, daysToKeep, fault, done) ==
    LET gone == CASE fault.op = "stat"   -> {}
                  [] fault.op = "unlink" -> done
                  [] OTHER               -> OlderThan(files, now, daysToKeep)
    IN  [i \in SegmentNames |-> IF i \in gone THEN NoDated ELSE files[i]]

\* What the file system may do to one sweep
SweepFaults(files, now, daysToKeep) ==
    {NoFault, Fault("stat", 0)}
        \cup {Fault("unlink", i) : i \in OlderThan(files, now, daysToKeep)}

CleanInit ==
    /\ store = StoreWith({RootId})
    /\ exactCS = TRUE
    /\ logFiles \in DatedDirs
    /\ written = 0
    /\ handled = 0
    /\ pc = "logger"
    /\ body = <<>>
    /\ parsed = NoIntent
    /\ sessionId = NullSession
    /\ result = NoResult
    /\ calls = <<>>
    /\ events = <<>>
    /\ reply = NoReply
    /\ http = "none"
    /\ requested = {}
    /\ faultsLeft = MaxFaults

\* cleanOldLogs(daysToKeep) is called
CleanSweep ==
    /\ pc = "logger"
    /\ \E daysToKeep \in 0..MaxDays :
          \E fault \in SweepFaults(logFiles, Now, daysToKeep) :
             \E done \in SUBSET (OlderThan(logFiles, Now, daysToKeep) \ {fault.at}) :
                /\ fault # NoFault => faultsLeft > 0
                /\ fault.op # "unlink" => done = {}
                /\ logFiles' = cleanOldLogs(logFiles, Now, daysToKeep, fault, done)
                /\ faultsLeft' = IF fault = NoFault THEN faultsLeft ELSE faultsLeft - 1
                /\ result' = [daysToKeep |-> daysToKeep]
    /\ pc' = "swept"
    /\ UNCHANGED <<store, exactCS, written, handled, body, parsed, sessionId, calls,
                   events, reply, http, requested>>

\* The sweep has returned
CleanReturn ==
    /\ pc = "swept"
    /\ pc' = "logger"
    /\ result' = NoResult
    /\ UNCHANGED <<store, exactCS, logFiles, written, handled, body, parsed, sessionId,
                   calls, events, reply, http, requested, faultsLeft>>

CleanNext ==
    \/ CleanSweep
    \/ CleanReturn

CleanSpec == CleanInit /\ [][CleanNext]_vars

-----------------------------------------------------------------------------
(* The webhook handler on stores that hold a folder literally named Root,   *)
(* for the messages that name the root folder                               *)

nRoot == <<"R","o","o","t">>

\* Documents (2) with report.pdf (3) in it, and a folder (7) of the given name
\* under root with photo.png (8) in it
RootStore(name) ==
    (2 :> Entry(nDocuments, FolderMime, {RootId})) @@
    (3 :> Entry(nReport, PdfMime, {2})) @@
    (7 :> Entry(name, FolderMime, {RootId})) @@
    (8 :> Entry(nPhoto, PngMime, {7}))

RootStores == {RootStore(nRoot), RootStore(kwROOT)}

RootBodies == {
    \* "list root"
    <<"l","i","s","t"," ","r","o","o","t">>,
    \* "LIST Root PAGE 1"
    <<"L","I","S","T"," ","R","o","o","t"," ","P","A","G","E"," ","1">>,
    \* "list /"
    <<"l","i","s","t"," ","/">>,
    \* "list documents"
    <<"l","i","s","t"," ","d","o","c","u","m","e","n","t","s">>,
    \* "move report.pdf Root"
    <<"m","o","v","e"," ","r","e","p","o","r","t",".","p","d","f"," ","R","o","o","t">>,
    \* "MOVE report.pdf /"
    <<"M","O","V","E"," ","r","e","p","o","r","t",".","p","d","f"," ","/">>,
    \* "move report.pdf documents"
    <<"m","o","v","e"," ","r","e","p","o","r","t",".","p","d","f"," ","d","o","c","u","m","e","n","t","s">>
}

RootInit ==
    /\ store \in RootStores
    /\ exactCS \in BOOLEAN
    /\ logFiles = EmptyLogDir
    /\ written = 0
    /\ handled = 0
    /\ pc = "idle"
    /\ body = <<>>
    /\ parsed = NoIntent
    /\ sessionId = NullSession
    /\ result = NoResult
    /\ calls = <<>>
    /\ events = <<>>
    /\ reply = NoReply
    /\ http = "none"
    /\ requested = {}
    /\ faultsLeft = 0

RootNext ==
    \/ \E b \in RootBodies : Receive(b)
    \/ ExecList
    \/ ExecMove
    \/ Send
    \/ Return

RootSpec == RootInit /\ [][RootNext]_vars

-----------------------------------------------------------------------------
(* Properties                                                              *)

Min(S) == CHOOSE x \in S : \A y \in S : x <= y

\* The non-trashed entries whose name is x up to casing
Candidates(st, x) ==
    {id \in DOMAIN st : ~st[id].trashed /\ toLowerCase(st[id].name) = toLowerCase(x)}

\* Those the store's exact query answers
ExactCandidates(st, cs, x) ==
    {id \in Candidates(st, x) : cs => st[id].name = x}

\* The entry a file name resolves to: the first exact answer, else the first
\* entry named x up to casing, in the store's order
ExpectedTarget(st, cs, x) ==
    IF ExactCandidates(st, cs, x) # {} THEN Min(ExactCandidates(st, cs, x))
    ELSE Min(Candidates(st, x))

CallsOf(cs, api) == {i \in DOMAIN cs : cs[i].api = api}

LookupFailed(cs) == \E i \in CallsOf(cs, "files.list") : ~cs[i].ok

Handling == pc \in {"parsed", "executed", "done"}

C1_DeleteOnlyOnConfirm ==
    CallsOf(calls, "files.delete") # {} => parsed.command = "DELETE_CONFIRM"

C1_ConfirmStep ==
    (/\ pc = "parsed"
     /\ pc' = "executed"
     /\ parsed.command = "DELETE_CONFIRM"
     /\ Candidates(store, parsed.path) # {}
     /\ ~LookupFailed(calls'))
    => /\ Cardinality(CallsOf(calls', "files.delete")) = 1
       /\ \A i \in CallsOf(calls', "files.delete") :
              calls'[i].id = ExpectedTarget(store, exactCS, parsed.path)

\* C1: a delete call is issued only while a DELETE_CONFIRM message is handled;
\* and when the name of a DELETE_CONFIRM resolves (an entry carries it up to
\* casing, and no lookup throws), exactly one delete call is issued, on the
\* entry the name resolves to, whatever was handled before.
C1_DeleteOnConfirm == []C1_DeleteOnlyOnConfirm /\ [][C1_ConfirmStep]_vars

\* A confirmed deletion after the request for the same path was handled
C1_Witness ==
    /\ pc = "executed"
    /\ parsed.command = "DELETE_CONFIRM"
    /\ parsed.path \in requested
    /\ \E i \in CallsOf(calls, "files.delete") : calls[i].ok /\ calls[i].id \notin DOMAIN store

\* A confirmed deletion with no request handled before it
C1_WitnessNoRequest ==
    /\ pc = "executed"
    /\ parsed.command = "DELETE_CONFIRM"
    /\ requested = {}
    /\ \E i \in CallsOf(calls, "files.delete") : calls[i].ok /\ calls[i].id \notin DOMAIN store

SecurityEvents == {i \in DOMAIN events : events[i].metadata.type = "security_event"}

C2_RequestRecorded ==
    (pc \in {"executed", "done"} /\ parsed.command = "DELETE_REQUEST")
    => /\ calls = <<>>
       /\ Cardinality(SecurityEvents) = 1
       /\ \A i \in SecurityEvents :
              /\ events[i].level = "WARN"
              /\ events[i].metadata.event = "delete_request"
              /\ events[i].metadata.details = parsed.path

C2_RequestStep == parsed.command = "DELETE_REQUEST" => store' = store

\* C2: handling a DELETE_REQUEST issues no remote call, leaves the store as
\* it was, and records exactly one security event, at level WARN, for the
\* path of the request.
C2_DeleteRequestFrame == []C2_RequestRecorded /\ [][C2_RequestStep]_vars

C2_Witness ==
    /\ pc = "done"
    /\ parsed.command = "DELETE_REQUEST"
    /\ parsed.path = toUpperCase(nReport)
    /\ SecurityEvents # {}

RECURSIVE Tokens(_)
\* The words of s: its maximal runs of characters that are not whitespace
Tokens(s) ==
    LET t == AfterWS(s)
    IN  IF t = <<>> THEN <<>>
        ELSE LET n == IF \E i \in 1..Len(t) : t[i] \in WhiteSpace
                      THEN Min({i \in 1..Len(t) : t[i] \in WhiteSpace}) - 1
                      ELSE Len(t)
             IN  <<SubSeq(t, 1, n)>> \o Tokens(SubSeq(t, n + 1, Len(t)))

Commands == {"LIST", "DELETE_REQUEST", "DELETE_CONFIRM", "MOVE", "SUMMARY", "HELP", "UNKNOWN"}

MatchesSomePattern(b) ==
    \/ listPagePattern(b).matched
    \/ listPattern(b).matched
    \/ deleteConfirmPattern(b).matched
    \/ deletePattern(b).matched
    \/ movePattern(b).matched
    \/ summaryPattern(b).matched
    \/ helpPattern(b)

\* A message, read word by word, that is a command: a keyword with the
\* arguments it needs
WellFormedWords(ws) ==
    /\ Len(ws) >= 1
    /\ \/ ws[1] \in {kwLIST, kwDELETE, kwSUMMARY} /\ Len(ws) >= 2
       \/ ws[1] = kwMOVE /\ Len(ws) >= 3
       \/ ws = <<kwHELP>>

\* C3: parseCommand is total: every text gets one intent, whose command is one
\* of the seven; a text that matches none of the patterns gets UNKNOWN, and so
\* does every one-line text that is no keyword with its arguments.
C3_ParseTotal ==
    pc = "output" =>
        /\ parsed.command \in Commands
        /\ ~MatchesSomePattern(NormalizeBody(body)) => parsed.command = "UNKNOWN"
        /\ (DotAll(body) /\ ~WellFormedWords(Tokens(NormalizeBody(body))))
               => parsed.command = "UNKNOWN"

\* A text that begins with a keyword and still matches no pattern
C3_Witness ==
    /\ pc = "output"
    /\ parsed.command = "UNKNOWN"
    /\ Len(Tokens(body)) >= 2
    /\ Tokens(NormalizeBody(body))[1] = kwHELP

PositiveInteger(w) == AllDigits(w) /\ parseInt(w) >= 1

\* The words of LIST <path> PAGE <n>
IsListPageForm(ws) == Len(ws) >= 4 /\ ws[1] = kwLIST /\ ws[Len(ws) - 1] = kwPAGE

\* C5 as claimed: LIST <path> PAGE <n> with an n that is no positive integer
\* is parsed to UNKNOWN.
C5_MalformedPageIsUnknown ==
    LET ws == Tokens(NormalizeBody(body))
    IN  (pc = "output" /\ IsListPageForm(ws) /\ ~PositiveInteger(ws[Len(ws)]))
            => parsed.command = "UNKNOWN"

\* What the code does with them: a LIST intent, of page 0 for n = 0, and of
\* the folder "<path> PAGE <n>", page 1, for an n that is no number.
C5_MalformedPageIsList ==
    LET ws == Tokens(NormalizeBody(body))
    IN  (pc = "output" /\ DotAll(body) /\ IsListPageForm(ws) /\ ~PositiveInteger(ws[Len(ws)]))
            => /\ parsed.command = "LIST"
               /\ AllDigits(ws[Len(ws)]) => parsed.page = 0
               /\ ~AllDigits(ws[Len(ws)]) =>
                      /\ parsed.page = 1
                      /\ Tokens(parsed.path) = SubSeq(ws, 2, Len(ws))

\* The non-trashed children of BIG
BigChildren == {id \in DOMAIN store : ~store[id].trashed /\ BigFolderId \in store[id].parents}

\* The child at index j (from 0) in the order of the names: the names of the
\* n children are F00 .. F<n-1>, and F<j> is the name of entry 100 + n - j
ChildAt(n, j) == [id |-> 100 + n - j, name |-> <<"F", Digits[(j \div 10) + 1], Digits[(j % 10) + 1]>>]

ListAnswered == pc = "executed" /\ parsed.command = "LIST" /\ ~HasError(result)

\* C4: for a folder of any number of children and a page n >= 1, listFiles
\* answers page n, totalPages = ceil(totalFiles / 10), and the children at the
\* indices (n-1)*10 .. min(n*10, totalFiles) - 1 of the name order: at most
\* ten, and none, without an error, for a page beyond the last.
C4_Pagination ==
    /\ (pc = "executed" /\ parsed.command = "LIST" /\ \A i \in DOMAIN calls : calls[i].ok)
           => ~HasError(result)
    /\ ListAnswered =>
          LET total == Cardinality(BigChildren)
              lo    == (result.page - 1) * 10
              hi    == Min({result.page * 10, total})
          IN  /\ \E k \in 1..MaxPage : body = PageBody(k) /\ result.page = k
              /\ result.totalFiles = total
              /\ result.totalPages * 10 >= total
              /\ (result.totalPages - 1) * 10 < total
              /\ Len(result.files) = IF hi > lo THEN hi - lo ELSE 0
              /\ Len(result.files) <= 10
              /\ \A j \in 1..Len(result.files) :
                    /\ result.files[j].id = ChildAt(total, lo + j - 1).id
                    /\ result.files[j].name = ChildAt(total, lo + j - 1).name
              /\ result.page > result.totalPages => result.files = <<>>

\* The last, partial page of a folder of 21 children is listed
C4_Witness ==
    /\ ListAnswered
    /\ result.totalFiles = 21
    /\ result.page = 3
    /\ Len(result.files) = 1

\* A page beyond the last is listed
C4_WitnessBeyond ==
    /\ ListAnswered
    /\ result.totalFiles = 15
    /\ result.page = 3
    /\ result.files = <<>>

\* x occurs in s, character for character
IsSubstring(x, s) ==
    \E i \in 0..(Len(s) - Len(x)) : SubSeq(s, i + 1, i + Len(x)) = x

\* The paths a reply shows back: the file of a confirmation prompt, the names
\* of a delete or move success text, the name of a not-found error
ShownPaths ==
    IF parsed.command = "DELETE_REQUEST" THEN {reply.args[1]}
    ELSE IF parsed.command \in {"DELETE_CONFIRM", "MOVE"}
    THEN {reply.args[i] : i \in DOMAIN reply.args}
    ELSE {}

\* C6 as claimed: the paths of the intent, and the paths shown in the reply,
\* are written as the user typed them.
C6_PathKeepsCasing ==
    /\ Handling =>
          /\ IsSubstring(parsed.path, body)
          /\ IsSubstring(parsed.destinationPath, body)
    /\ pc \in {"executed", "done"} => \A x \in ShownPaths : IsSubstring(x, body)

\* What the code does: the paths are those of the upper-cased message.
C6_PathIsUpperCased ==
    /\ (Handling /\ parsed # NoIntent) =>
          /\ IsSubstring(parsed.path, toUpperCase(body))
          /\ IsSubstring(parsed.destinationPath, toUpperCase(body))
    /\ (pc \in {"executed", "done"} /\ parsed # NoIntent)
           => \A x \in ShownPaths : IsSubstring(x, toUpperCase(body))

\* "summary resume.pdf"
SummaryResume == <<"s","u","m","m","a","r","y"," ">> \o nResume

\* C7 as claimed: "summary resume.pdf", with resume.pdf in the store, of an
\* allowed kind, and a store whose exact-name lookup is case-sensitive, gives
\* a result without error whose summaries are one element, named resume.pdf.
C7_SummaryOfResume ==
    (/\ pc = "executed"
     /\ body = SummaryResume
     /\ exactCS
     /\ \E id \in DOMAIN store :
           store[id].name = nResume /\ ~store[id].trashed /\ Summarizable(store[id].mimeType)
     /\ \A i \in DOMAIN calls : calls[i].api \in StoreApis => calls[i].ok)
    => /\ ~HasError(result)
       /\ Len(result.summaries) = 1
       /\ result.summaries[1].fileName = nResume

\* What the code does then: the upper-cased name is looked up, and not found.
C7_ResumeNotFound ==
    (/\ pc = "executed"
     /\ body = SummaryResume
     /\ exactCS
     /\ \A i \in DOMAIN calls : calls[i].api \in StoreApis => calls[i].ok)
    => /\ HasError(result)
       /\ result.error = NotFound("File", toUpperCase(nResume)).error

FailedSummaryCalls == {i \in DOMAIN calls : calls[i].api = "gemini" /\ calls[i].answer # "ok"}

\* C8 as claimed: a failure of the summary service for a file that was
\* resolved and fetched stays inside the summary operation: the result has no
\* error and holds the file's element, its summary an explanatory string.
C8_SummaryFailureExplained ==
    (pc = "executed" /\ parsed.command = "SUMMARY") =>
        \A i \in FailedSummaryCalls :
            /\ ~HasError(result)
            /\ \E j \in DOMAIN result.summaries :
                  /\ result.summaries[j].fileName = calls[i].name
                  /\ result.summaries[j].summary \in ExplanatoryStrings

\* What holds of the code: the failure gives no error result, and the file's
\* element is there; its summary is an explanatory string unless the answer's
\* first part has no text.
C8_SummaryFailureKept ==
    (pc = "executed" /\ parsed.command = "SUMMARY") =>
        \A i \in FailedSummaryCalls :
            /\ ~HasError(result)
            /\ \E j \in DOMAIN result.summaries :
                  /\ result.summaries[j].fileName = calls[i].name
                  /\ calls[i].answer # "noText" =>
                        result.summaries[j].summary \in ExplanatoryStrings

\* The folder a destination path names: root, else the first folder the exact
\* query answers, else the first folder named so up to casing
FolderCandidates(st, x) == {id \in Candidates(st, x) : st[id].mimeType = FolderMime}

ExpectedFolder(st, cs, x) ==
    IF IsRootPath(x) THEN RootId
    ELSE IF FolderCandidates(st, x) \cap ExactCandidates(st, cs, x) # {}
    THEN Min(FolderCandidates(st, x) \cap ExactCandidates(st, cs, x))
    ELSE Min(FolderCandidates(st, x))

Moved == pc = "executed" /\ parsed.command = "MOVE" /\ ~HasError(result)

\* C9 as claimed: after a successful move the parents of the source are the
\* destination and nothing else, whatever its parents were before.
C9_MovedUnderDestinationOnly ==
    Moved =>
        \A i \in CallsOf(calls, "files.update") :
            store[calls[i].id].parents =
                {ExpectedFolder(store, exactCS, parsed.destinationPath)}

\* What holds of the code: the source has no parent other than the destination.
C9_MovedNowhereElse ==
    Moved =>
        /\ Cardinality(CallsOf(calls, "files.update")) = 1
        /\ \A i \in CallsOf(calls, "files.update") :
              store[calls[i].id].parents \subseteq
                  {ExpectedFolder(store, exactCS, parsed.destinationPath)}

\* C10 as claimed: the audit events of one message carry one sessionId in
\* their sessionId field.
C10_OneSessionIdPerMessage ==
    \A i, j \in DOMAIN events : events[i].sessionId = events[j].sessionId

\* What holds of the code: the events after the command event carry the
\* command event's sessionId in their metadata.
C10_SessionIdInMetadata ==
    (Handling /\ parsed # NoIntent) =>
        /\ events[1].sessionId = sessionId
        /\ \A i \in DOMAIN events : i > 1 => events[i].metadata.sessionId = sessionId

ErrorEvents == {i \in DOMAIN events : events[i].level = "ERROR"}

\* A store call that threw, or a summary-service call that did not answer well
FailedCalls == {i \in DOMAIN calls : ~calls[i].ok}

RemoteCommands == {"LIST", "DELETE_CONFIRM", "MOVE", "SUMMARY"}

\* C11 as claimed: when a remote call fails while a List, DeleteConfirm, Move
\* or Summary message is handled, one ERROR audit event is recorded for the
\* message before its reply is produced.
C11_FailureLoggedAsError ==
    (pc = "executed" /\ parsed.command \in RemoteCommands /\ FailedCalls # {})
        => Cardinality(ErrorEvents) = 1

\* What the code does: the operation catches the failure and returns an error
\* value; the handler records its INFO operation event and no ERROR event.
C11_FailureLoggedAsInfo ==
    (pc = "executed" /\ parsed.command \in RemoteCommands /\ FailedCalls # {})
        => /\ ErrorEvents = {}
           /\ Len(events) = 2
           /\ events[2].level = "INFO"

\* A write that rotates, with no file-system error
Rotates ==
    /\ written' = written + 1
    /\ faultsLeft' = faultsLeft
    /\ logFiles[0].exists
    /\ statSize(logFiles) > maxFileSize

\* C12 as claimed: a rotation moves every rotated segment .i, 1 <= i <= N-1,
\* to .(i+1), and the active segment to .1; only a .N is discarded.
C12_RotationShiftsEverySegment ==
    [][Rotates =>
          /\ \A i \in 1..(maxFiles - 1) :
                logFiles[i].exists => logFiles'[i + 1] = logFiles[i]
          /\ logFiles'[1] = logFiles[0]]_vars

\* What the code does: .(N-1) is deleted, not moved; the segments below it
\* move up, the active segment becomes .1, and no .N ever exists.
C12_RotationDropsLastButOne ==
    [][Rotates =>
          /\ \A i \in 1..(maxFiles - 2) :
                logFiles[i].exists => logFiles'[i + 1] = logFiles[i]
          /\ logFiles'[1] = logFiles[0]
          /\ ~logFiles'[maxFiles].exists]_vars

SegmentFiles == {i \in SegmentNames : logFiles[i].exists}

\* C13: from an empty log directory, whatever is written, the log directory
\* never holds more than N + 1 segment files, N = maxFiles.
C13_SegmentCountBounded == Cardinality(SegmentFiles) <= maxFiles + 1

\* The directory is full: the active segment and every rotated segment the
\* code keeps, after a segment was discarded
C13_Witness ==
    /\ pc = "logger"
    /\ logFiles[0].exists
    /\ logFiles[maxFiles - 1].exists
    /\ \E i \in 1..written : \A k \in SegmentFiles :
          \A j \in DOMAIN logFiles[k].lines : logFiles[k].lines[j].seq # i
    /\ faultsLeft = MaxFaults

\* The last min(count, n) lines of the active segment, in write order
LastLines(count) ==
    LET n == Len(logFiles[0].lines)
        k == IF count < n THEN count ELSE n
    IN  SubSeq(logFiles[0].lines, n - k + 1, n)

\* C14 as claimed: getRecentLogs(count), count >= 0, returns the last
\* min(count, n) entries of the active segment, in write order: never more
\* than count, and none of a rotated segment.
C14_RecentLogsAreLastCount ==
    [][(pc = "logger" /\ pc' = "read" /\ faultsLeft' = faultsLeft) =>
          /\ result'.entries = LastLines(result'.count)
          /\ Len(result'.entries) <= result'.count]_vars

\* What the code does: so for every count but 0, for which it returns every
\* entry of the active segment.
C14_RecentLogsButForZero ==
    [][(pc = "logger" /\ pc' = "read" /\ faultsLeft' = faultsLeft) =>
          /\ result'.count > 0 => result'.entries = LastLines(result'.count)
          /\ result'.count = 0 => result'.entries = logFiles[0].lines]_vars

MutatingCalls(cs) == {i \in DOMAIN cs : cs[i].api \in MutatingApis}

StoreCalls(cs) == {i \in DOMAIN cs : cs[i].api \in StoreApis}

\* At most one mutating store call, and no store call after it
C15_OneMutationLast ==
    /\ Cardinality(MutatingCalls(calls)) <= 1
    /\ \A i \in MutatingCalls(calls) : \A j \in StoreCalls(calls) : j <= i

\* The name of the message being handled does not resolve in the store
Unresolved ==
    \/ /\ parsed.command = "DELETE_CONFIRM"
       /\ Candidates(store, parsed.path) = {}
    \/ /\ parsed.command = "MOVE"
       /\ \/ Candidates(store, parsed.path) = {}
          \/ /\ ~IsRootPath(parsed.destinationPath)
             /\ FolderCandidates(store, parsed.destinationPath) = {}

C15_ExecuteStep ==
    (pc = "parsed" /\ pc' = "executed") =>
        /\ store' # store =>
              /\ MutatingCalls(calls') # {}
              /\ \A i \in DOMAIN calls' : calls'[i].api \in StoreApis => calls'[i].ok
        /\ ((parsed.command \in {"DELETE_CONFIRM", "MOVE"}
                /\ (Unresolved \/ LookupFailed(calls')))
            => /\ MutatingCalls(calls') = {}
               /\ store' = store
               /\ HasError(result'))

\* C15: while a message is handled the lookups of a name only read the store;
\* at most one mutating store call is issued, after every other store call;
\* and when a name is not found or a lookup fails there is no mutating call,
\* the store is as it was, and the result is an error value.
C15_ResolutionFrame == []C15_OneMutationLast /\ [][C15_ExecuteStep]_vars

\* A move whose source is found by the fallback scan and whose destination is
\* not found after both lookups
C15_Witness ==
    /\ pc = "executed"
    /\ parsed.command = "MOVE"
    /\ Len(calls) = 4
    /\ HasError(result)
    /\ result.error.tmpl = "Destination folder"
    /\ \E b \in InitialStores : store = b

\* The ids of the files of a listing
ListedIds == {result.files[i].id : i \in DOMAIN result.files}

\* C16: with a case-sensitive exact lookup, listFiles resolves the folder
\* stored as Documents for each of the queries documents, DOCUMENTS and
\* Documents, and lists that folder's children.
C16_DocumentsInAnyCasing ==
    (/\ pc = "called"
     /\ parsed.command = "LIST"
     /\ exactCS
     /\ toLowerCase(parsed.path) = nLowerDocuments
     /\ \E id \in DOMAIN store :
           /\ store[id].name = nDocuments
           /\ FolderCandidates(store, nDocuments) = {id}
     /\ FailedCalls = {})
    => /\ ~HasError(result)
       /\ \A id \in FolderCandidates(store, nDocuments) :
             /\ calls[Len(calls)].id = id
             /\ ListedIds = {c \in DOMAIN store : ~store[c].trashed /\ id \in store[c].parents}
             /\ Len(result.files) = Cardinality(ListedIds)

\* The query documents finds Documents by the fallback scan
C16_Witness ==
    /\ pc = "called"
    /\ parsed.command = "LIST"
    /\ exactCS
    /\ parsed.path = nLowerDocuments
    /\ FolderCandidates(store, nDocuments) = {1}
    /\ Len(calls) = 3
    /\ Len(result.files) = 1

\* The query Documents finds Documents by the exact lookup
C16_WitnessExact ==
    /\ pc = "called"
    /\ parsed.command = "LIST"
    /\ exactCS
    /\ parsed.path = nDocuments
    /\ FolderCandidates(store, nDocuments) = {1}
    /\ Len(calls) = 2
    /\ Len(result.files) = 1

\* The first match of a lookup, in the order the store answers
FirstMatch(h) ==
    IF h.intent.command = "LIST" THEN ExpectedFolder(h.on, exactCS, h.intent.path)
    ELSE ExpectedTarget(h.on, exactCS, h.intent.path)

FaultRaised == faultsLeft' < faultsLeft

C18_Processed ==
    (pc = "done" /\ body # <<>> /\ body # NotAString)
        => /\ http = "success"
           /\ reply # NoReply

C18_FaultStep ==
    (FaultRaised /\ pc \in {"idle", "parsed", "executed"}) =>
        /\ pc = "idle" =>
              \/ pc' = "parsed" /\ parsed' = parseCommand(body') /\ Len(events') = 1
              \/ body' = NotAString /\ http' = "error 500"
        /\ pc = "parsed" =>
              /\ pc' = "executed"
              /\ reply' = formatWhatsAppResponse(parsed.command, result', parsed)
              /\ Len(events') = 2
              /\ (parsed.command = "DELETE_CONFIRM" /\ ~HasError(result'))
                     => \E i \in CallsOf(calls', "files.delete") :
                           calls'[i].id \in DOMAIN store /\ calls'[i].id \notin DOMAIN store'
              /\ (parsed.command = "MOVE" /\ ~HasError(result'))
                     => \E i \in CallsOf(calls', "files.update") :
                           store'[calls'[i].id].parents # store[calls'[i].id].parents
                               \/ store[calls'[i].id].parents = {ExpectedFolder(store, exactCS, parsed.destinationPath)}
        /\ pc = "executed" => pc' = "done" /\ http' = "success"

\* C18: a file-system error while the audit log is written or rotated is not
\* thrown to the caller of the log method: the handler goes on as without
\* it, the store operation is performed, the reply is built and the request
\* is answered 'success'.
C18_LogFailureNotThrown == []C18_Processed /\ [][C18_FaultStep]_vars

\* A confirmed deletion was carried out and answered although the write of
\* an audit line failed
C18_Witness ==
    /\ pc = "done"
    /\ http = "success"
    /\ parsed.command = "DELETE_CONFIRM"
    /\ ~HasError(result)
    /\ faultsLeft < MaxFaults
    /\ written = 2
    /\ Len(logFiles[0].lines) = 1

\* The words of a message that begins with the word MOVE
MoveWords(ws) == Len(ws) >= 1 /\ ws[1] = kwMOVE

\* C19 as claimed: MOVE followed by two or more words is a Move intent of the
\* first word as source and the remaining words as destination; MOVE followed
\* by one word is no Move intent.
C19_MoveSplitsAtFirstWord ==
    LET ws == Tokens(NormalizeBody(body))
    IN  (pc = "output" /\ MoveWords(ws)) =>
            /\ Len(ws) >= 3 =>
                  /\ parsed.command = "MOVE"
                  /\ parsed.path = ws[2]
                  /\ Tokens(parsed.destinationPath) = SubSeq(ws, 3, Len(ws))
            /\ Len(ws) = 2 => parsed.command # "MOVE"

\* What holds of the code: so it is for the messages of one line.
C19_MoveSplitsOnOneLine ==
    LET ws == Tokens(NormalizeBody(body))
    IN  (pc = "output" /\ MoveWords(ws) /\ DotAll(trim(body))) =>
            /\ Len(ws) >= 3 =>
                  /\ parsed.command = "MOVE"
                  /\ parsed.path = ws[2]
                  /\ Tokens(parsed.destinationPath) = SubSeq(ws, 3, Len(ws))
            /\ Len(ws) = 2 => parsed.command # "MOVE"

\* C20: the text the confirmation prompt tells the user to send, parsed as
\* the next message, is a DELETE_CONFIRM of the path of the DELETE_REQUEST.
C20_PromptRoundTrip ==
    pc = "answered" =>
        /\ parsed.command = "DELETE_CONFIRM"
        /\ requested = {parsed.path}

\* The prompt for a path of several words, CONFIRM among them, was answered
C20_Witness ==
    /\ pc = "answered"
    /\ Len(Tokens(parsed.path)) >= 2
    /\ \E i \in DOMAIN Tokens(parsed.path) : Tokens(parsed.path)[i] = kwCONFIRM

OperationEvents == {i \in DOMAIN events : events[i].metadata.type = "drive_operation"}

\* The store call an operation event of the given name stands for
MutationOf(operation) ==
    CASE operation = "delete" -> {"files.delete"}
      [] operation = "move"   -> {"files.update"}
      [] OTHER                -> StoreApis

\* C21 as claimed: while a message is handled there are as many operation
\* audit events as remote store calls attempted, and an operation event that
\* names a mutation has its mutating store call among the calls attempted.
C21_OneOperationEventPerCall ==
    pc = "executed" =>
        /\ Cardinality(OperationEvents) = Cardinality(StoreCalls(calls))
        /\ \A i \in OperationEvents :
              \E j \in StoreCalls(calls) :
                  calls[j].api \in MutationOf(events[i].metadata.operation)

\* What the code does: one operation event per List, DeleteConfirm or Move
\* message, whatever the number of store calls, and none for another message.
C21_OneOperationEventPerCommand ==
    pc = "executed" =>
        Cardinality(OperationEvents) =
            IF parsed.command \in {"LIST", "DELETE_CONFIRM", "MOVE"} THEN 1 ELSE 0

\* The handler left its try block by an exception: the catch block of lines
\* 647-651 answered the transport with status 500
UnexpectedFailure == pc = "done" /\ http = "error 500"

\* twilioClient.messages.create was called with a response message: the only
\* call is the one of lines 635-639, after formatWhatsAppResponse
ChatReplySent == pc = "done" /\ reply # NoReply

\* C22 as claimed: when the handling of a message fails with an unexpected
\* exception, a failure reply is sent over the chat channel and exactly one
\* ERROR audit event is recorded.
C22_FailureRepliedAndLogged ==
    UnexpectedFailure =>
        /\ ChatReplySent
        /\ Cardinality(ErrorEvents) = 1

\* What the code does: the ERROR event is recorded, with a null session, and
\* the transport is answered with status 500; nothing is sent to the user.
C22_FailureOnlyLogged ==
    UnexpectedFailure =>
        /\ ~ChatReplySent
        /\ Cardinality(ErrorEvents) = 1
        /\ \A i \in ErrorEvents :
              /\ events[i].metadata.context = "webhook_processing"
              /\ events[i].metadata.sessionId = NullSession

\* A Summary of a folder that gave a result
FolderSummary ==
    /\ pc = "executed"
    /\ parsed.command = "SUMMARY"
    /\ ~isFilePath(parsed.path)
    /\ ~HasError(result)

\* The children of an allowed content kind on the first page of the folder
\* the path names, in name order
AllowedOnFirstPage ==
    LET children == ChildrenOf(store, ExpectedFolder(store, exactCS, parsed.path))
        first    == SubSeq(children, 1, Min({pageSize, Len(children)}))
        Allowed(f) == Summarizable(f.mimeType)
    IN  SelectSeq(first, Allowed)

\* The download of the child threw, or the summary service did not answer
\* well for it
ChildFailed(id) ==
    \E i \in DOMAIN calls :
        /\ calls[i].id = id
        /\ calls[i].api \in {"files.get", "gemini"}
        /\ ~calls[i].ok

\* The service answered for the child with a first part that has no text
ChildNoText(id) ==
    \E i \in DOMAIN calls :
        calls[i].id = id /\ calls[i].api = "gemini" /\ calls[i].answer = "noText"

\* C23 as claimed: a folder Summary has one element per allowed child of the
\* first page, in listing order, and the element of a child whose download or
\* summary failed holds an explanatory error string.
C23_FolderSummaryPerChild ==
    FolderSummary =>
        /\ Len(result.summaries) = Len(AllowedOnFirstPage)
        /\ \A j \in DOMAIN AllowedOnFirstPage :
              /\ result.summaries[j].fileName = AllowedOnFirstPage[j].name
              /\ ChildFailed(AllowedOnFirstPage[j].id) =>
                    result.summaries[j].summary \in ExplanatoryStrings

\* What holds of the code: one element per allowed child, in listing order,
\* failed or not; the summary text for a child that did not fail, and an
\* explanatory string for one that did unless the answer had no text.
C23_FolderSummaryKeepsChildren ==
    FolderSummary =>
        /\ Len(result.summaries) = Len(AllowedOnFirstPage)
        /\ \A j \in DOMAIN AllowedOnFirstPage :
              /\ result.summaries[j].fileName = AllowedOnFirstPage[j].name
              /\ ~ChildFailed(AllowedOnFirstPage[j].id) =>
                    result.summaries[j].summary = SummaryText
              /\ (ChildFailed(AllowedOnFirstPage[j].id)
                     /\ ~ChildNoText(AllowedOnFirstPage[j].id)) =>
                    result.summaries[j].summary \in ExplanatoryStrings

\* The active segment is larger than the threshold
Exceeds(files) == files[0].exists /\ SumSizes(files[0].lines) > maxFileSize

\* The last line of the active segment is the line written by this step
NewLineLast(files, n) ==
    /\ files[0].exists
    /\ files[0].lines # <<>>
    /\ files[0].lines[Len(files[0].lines)].seq = n

\* One append: when the active segment exceeds the threshold it becomes
\* segment .1, every segment below the last moves up by one name and the new
\* active segment holds the new line alone; else no segment moves and the
\* active segment keeps its lines, the new line added if any is.
AppendRotatesOnce ==
    IF Exceeds(logFiles)
    THEN /\ logFiles'[1] = logFiles[0]
         /\ \A i \in 1..(maxFiles - 2) : logFiles'[i + 1] = logFiles[i]
         /\ NewLineLast(logFiles', written')
         /\ Len(logFiles'[0].lines) = 1
    ELSE /\ \A i \in SegmentNames \ {0} : logFiles'[i] = logFiles[i]
         /\ \/ logFiles'[0] = logFiles[0]
            \/ /\ NewLineLast(logFiles', written')
               /\ Len(logFiles'[0].lines) = Len(logFiles[0].lines) + 1
               /\ SubSeq(logFiles'[0].lines, 1, Len(logFiles[0].lines)) = logFiles[0].lines

RECURSIVE LinesDownFrom(_, _)
\* The lines of the segments .i, .(i-1), ..., .1 and of the active file, read
\* in that order
LinesDownFrom(files, i) ==
    IF i < 0 THEN <<>>
    ELSE files[i].lines \o LinesDownFrom(files, i - 1)

\* Every line of the log directory, oldest segment first
AllLines == LinesDownFrom(logFiles, maxFiles + 2)

\* No file-system call has failed so far
NoFaultSoFar == faultsLeft = MaxFaults

\* C25: as long as no file-system call fails, the lines of the segments read
\* from the highest-numbered one down to .1 and then the active file are the
\* last lines written, each once, in write order.
C25_SegmentsAreSuffixOfWrites ==
    NoFaultSoFar =>
        \A j \in DOMAIN AllLines : AllLines[j].seq = written - Len(AllLines) + j

\* The oldest segment was dropped: segments .1 to .4 exist, with no
\* file-system error so far, and fewer lines are kept than were written
C25_Witness ==
    /\ NoFaultSoFar
    /\ \A i \in 1..(maxFiles - 1) : logFiles[i].exists
    /\ Len(AllLines) < written
    /\ Len(AllLines) >= maxFiles

\* The place of the line of serial number n among all the lines of the
\* directory, oldest first; 0 when the line is not there
PlaceOf(n) ==
    IF \E j \in DOMAIN AllLines : AllLines[j].seq = n
    THEN CHOOSE j \in DOMAIN AllLines : AllLines[j].seq = n
    ELSE 0

\* No entry is lost: the lines of the directory are the last lines written,
\* each once, in the order they were written
NoEntryLost ==
    \A j \in DOMAIN AllLines : AllLines[j].seq = written - Len(AllLines) + j

\* Every rotated segment was rotated when it had just crossed the threshold:
\* it exceeds the threshold by its last line, so no line was added to it
\* after the crossing and no rotation moved a segment that had not crossed
RotatedAtCrossing ==
    \A i \in SegmentNames \ {0} :
        logFiles[i].exists =>
            /\ SumSizes(logFiles[i].lines) > maxFileSize
            /\ SumSizes(SubSeq(logFiles[i].lines, 1, Len(logFiles[i].lines) - 1))
                   <= maxFileSize

\* The entries of one message are in the log in the order the message
\* recorded them, whatever the other handlers wrote between them
OwnOrderKept ==
    \A h \in Handlers :
        \A i, j \in DOMAIN events[h] :
            (i < j /\ PlaceOf(events[h][i].seq) > 0) =>
                /\ PlaceOf(events[h][j].seq) > 0
                /\ PlaceOf(events[h][i].seq) < PlaceOf(events[h][j].seq)

\* C26: with several messages in flight, their handlers interleaving at the
\* awaited calls, no audit entry is lost, none is added to a rotated segment,
\* no crossing of the threshold rotates twice, and the entries of a message
\* are in the log in the order the message recorded them.
C26_RecordsAreAtomic ==
    /\ NoEntryLost
    /\ RotatedAtCrossing
    /\ OwnOrderKept

\* Two handlers are in flight, both have recorded, the entries of the one
\* lie on either side of an entry of the other, and a rotation came between
C26_Witness ==
    /\ \A h \in Handlers : pc[h] \in {"awaiting", "sending"} /\ events[h] # <<>>
    /\ \E h, g \in Handlers :
          /\ h # g
          /\ Len(events[h]) >= 2
          /\ events[h][1].seq < events[g][1].seq
          /\ events[g][1].seq < events[h][2].seq
    /\ logFiles[1].exists

\* One sweep of daysToKeep days: the segments modified before the cutoff are
\* gone, and every other segment is as it was, under its name
SweepsExactly(daysToKeep) ==
    \A i \in SegmentNames :
        IF logFiles[i].exists /\ logFiles[i].mtime < Now - daysToKeep
        THEN ~logFiles'[i].exists
        ELSE logFiles'[i] = logFiles[i]

RootWord(w) == w = Slash \/ toLowerCase(w) = toLowerCase(kwROOT)

\* A List message whose path is a word that names the root folder
ListOfRoot ==
    /\ pc = "executed"
    /\ parsed.command = "LIST"
    /\ Len(Tokens(body)) >= 2
    /\ RootWord(Tokens(body)[2])
    /\ Len(Tokens(parsed.path)) = 1

\* A Move message whose destination is a word that names the root folder
MoveToRoot ==
    /\ pc = "executed"
    /\ parsed.command = "MOVE"
    /\ Len(Tokens(body)) = 3
    /\ RootWord(Tokens(body)[3])

\* C28: for a List of '/' or root, and for a Move to '/' or root, in any
\* casing and also when the store holds a folder named Root, no lookup of
\* the root's name is issued and the operation acts on the identifier
\* 'root': the one call of the List is the listing of the children of
\* 'root', the lookups of the Move are those of its source, and the file
\* moved has no parent but 'root'.
C28_RootIsSentinel ==
    /\ ListOfRoot =>
          /\ Len(calls) = 1
          /\ calls[1].api = "files.list"
          /\ calls[1].id = RootId
          /\ ~HasError(result) => result.files = Paginate(ChildrenOf(store, RootId), parsed.page).files
    /\ MoveToRoot =>
          /\ \A i \in DOMAIN calls : calls[i].name # parsed.destinationPath
          /\ \A i \in CallsOf(calls, "files.list") :
                /\ i <= 2
                /\ calls[1].name = parsed.path
                /\ i = 2 => calls[2].name = <<>>
          /\ ~HasError(result) => store[3].parents \subseteq {RootId}

\* "move report.pdf Root" moved the file under root in a store that holds a
\* folder named ROOT, which the exact query would have answered
C28_Witness ==
    /\ MoveToRoot
    /\ ~HasError(result)
    /\ Tokens(body)[3] = nRoot
    /\ store[7].name = kwROOT
    /\ store[3].parents = {RootId}

\* "list root" listed the children of root, the folder named Root among them
C28_WitnessList ==
    /\ ListOfRoot
    /\ ~HasError(result)
    /\ Tokens(body)[2] = toLowerCase(kwROOT)
    /\ \E j \in DOMAIN result.files : result.files[j].id = 7

====
